---- MODULE Spec2Model ----
(***************************************************************************)
(* Sync orchestration and song reconciliation engine of myncer.            *)
(*                                                                         *)
(* The module models syncEngineImpl.RunSync (the variant that persists     *)
(* and broadcasts PENDING, RUNNING and the terminal status), its two       *)
(* strategies runOneWaySync and runPlaylistMergeSync, getSearchedSongs,    *)
(* and the matching package (Clean, CalculateSimilarity,                   *)
(* DeduplicateSongs).  The run store, the provider clients and the LLM     *)
(* normalizer are external collaborators: every call to them is a step     *)
(* whose outcome (success, error) is chosen nondeterministically.          *)
(***************************************************************************)
EXTENDS Integers, Sequences, FiniteSets, TLC

(***************************************************************************)
(* Bounds of the model.                                                    *)
(***************************************************************************)
\* number of RunSync invocations explored one after the other
MaxRuns == 1

(***************************************************************************)
(* Text.  A string is a sequence of one-character strings.                 *)
(***************************************************************************)
LowerOf(c) ==
  CASE c = "A" -> "a"
    [] c = "B" -> "b"
    [] c = "L" -> "l"
    [] c = "X" -> "x"
    [] OTHER -> c

\* strings.ToLower
ToLower(s) == [i \in 1..Len(s) |-> LowerOf(s[i])]

\* norm.NFD, removal of the combining marks (unicode.Mn), norm.NFC
StripMark(c) ==
  CASE c = "é" -> "e"
    [] c = "á" -> "a"
    [] OTHER -> c

RemoveDiacritics(s) == [i \in 1..Len(s) |-> StripMark(s[i])]

IsSpace(c) == c = " "

IsAlnum(c) == c \in {"a", "b", "c", "d", "e", "f", "i", "l", "m", "n", "t",
                     "v", "x", "y", "z", "0", "1"}

Sub(s, i, j) == IF i > j THEN <<>> ELSE SubSeq(s, i, j)

\* does the string s have p as a prefix at position i
HasAt(s, i, p) == i + Len(p) - 1 <= Len(s) /\ Sub(s, i, i + Len(p) - 1) = p

\* position after the run of white space starting at i
RECURSIVE SkipSpaces(_, _)
SkipSpaces(s, i) ==
  IF i <= Len(s) /\ IsSpace(s[i]) THEN SkipSpaces(s, i + 1) ELSE i

\* first position >= i holding the character c, or 0
RECURSIVE IndexFrom(_, _, _)
IndexFrom(s, i, c) ==
  IF i > Len(s) THEN 0
  ELSE IF s[i] = c THEN i
  ELSE IndexFrom(s, i + 1, c)

CloserOf(c) == IF c = "[" THEN "]" ELSE ")"

\* featRegex anchored at position i: the position of the closing bracket of
\*   \[\s*(feat|ft)\.?\s*[^\]]+\]  |  \(\s*(feat|ft)\.?\s*[^)]+\)
\* or 0 when there is no match at i.
FeatMatchEnd(s, i) ==
  IF ~(i <= Len(s) /\ s[i] \in {"[", "("}) THEN 0
  ELSE
    LET j  == SkipSpaces(s, i + 1)
        k  == IF HasAt(s, j, <<"f", "e", "a", "t">>) THEN j + 4
              ELSE IF HasAt(s, j, <<"f", "t">>) THEN j + 2
              ELSE 0
        cl == IF k = 0 THEN 0 ELSE IndexFrom(s, k, CloserOf(s[i]))
    IN  \* \.?\s*[^\]]+ needs at least one character other than the closer
        \* between the keyword and the closer (the optional dot and the
        \* white space can be given back to the negated class)
        IF k = 0 \/ cl = 0 THEN 0
        ELSE IF cl > k THEN cl
        ELSE 0

\* regexp.ReplaceAllString(s, ""): leftmost non-overlapping matches
RECURSIVE RemoveFeat(_, _)
RemoveFeat(s, i) ==
  IF i > Len(s) THEN <<>>
  ELSE LET e == FeatMatchEnd(s, i)
       IN  IF e # 0 THEN RemoveFeat(s, e + 1)
           ELSE <<s[i]>> \o RemoveFeat(s, i + 1)

\* the tag words of tagsRegex that the alphabet of the model can spell
TagWords == { <<"l", "i", "v", "e">>, <<"e", "d", "i", "t">> }

\* first position p >= i where some tag word starts, as the end of the word,
\* or 0
RECURSIVE TagWordEndFrom(_, _)
TagWordEndFrom(s, i) ==
  IF i > Len(s) THEN 0
  ELSE IF \E w \in TagWords : HasAt(s, i, w)
       THEN i + 3
       ELSE TagWordEndFrom(s, i + 1)

\* first position >= i holding ")" or "]", or 0
RECURSIVE CloserFrom(_, _)
CloserFrom(s, i) ==
  IF i > Len(s) THEN 0
  ELSE IF s[i] \in {")", "]"} THEN i
  ELSE CloserFrom(s, i + 1)

\* tagsRegex anchored at i: [\(\[].*?(remix|edit|live|...).*?[\)\]]
\* (both .*? are lazy: the first tag word after the opener, then the first
\* closer after the word); the position of the closer, or 0.
TagMatchEnd(s, i) ==
  IF ~(i <= Len(s) /\ s[i] \in {"[", "("}) THEN 0
  ELSE LET w == TagWordEndFrom(s, i + 1)
       IN  IF w = 0 THEN 0 ELSE CloserFrom(s, w + 1)

RECURSIVE RemoveTags(_, _)
RemoveTags(s, i) ==
  IF i > Len(s) THEN <<>>
  ELSE LET e == TagMatchEnd(s, i)
       IN  IF e # 0 THEN RemoveTags(s, e + 1)
           ELSE <<s[i]>> \o RemoveTags(s, i + 1)

\* nonAlphanumericRegex [^a-z0-9\s]+ replaced by one space
RECURSIVE ReplaceNonAlnum(_, _)
ReplaceNonAlnum(s, i) ==
  IF i > Len(s) THEN <<>>
  ELSE IF IsAlnum(s[i]) \/ IsSpace(s[i])
       THEN <<s[i]>> \o ReplaceNonAlnum(s, i + 1)
       ELSE IF i > 1 /\ ~(IsAlnum(s[i - 1]) \/ IsSpace(s[i - 1]))
            THEN ReplaceNonAlnum(s, i + 1)
            ELSE <<" ">> \o ReplaceNonAlnum(s, i + 1)

\* extraWhitespaceRegex \s+ replaced by one space
RECURSIVE CollapseSpaces(_, _)
CollapseSpaces(s, i) ==
  IF i > Len(s) THEN <<>>
  ELSE IF IsSpace(s[i]) /\ i > 1 /\ IsSpace(s[i - 1])
       THEN CollapseSpaces(s, i + 1)
       ELSE <<s[i]>> \o CollapseSpaces(s, i + 1)

\* strings.TrimSpace
RECURSIVE TrimLeft(_)
TrimLeft(s) ==
  IF s # <<>> /\ IsSpace(Head(s)) THEN TrimLeft(Tail(s)) ELSE s

RECURSIVE TrimRight(_)
TrimRight(s) ==
  IF s # <<>> /\ IsSpace(s[Len(s)])
  THEN TrimRight(Sub(s, 1, Len(s) - 1)) ELSE s

TrimSpace(s) == TrimRight(TrimLeft(s))

\* variant of Clean: the white space is collapsed before the characters
\* that are not alphanumeric are replaced
CleanCollapseFirst(s) ==
  TrimSpace(
    ReplaceNonAlnum(
      CollapseSpaces(
        RemoveTags(
          RemoveFeat(
            RemoveDiacritics(ToLower(s)), 1), 1), 1), 1))

Clean(s) ==
  TrimSpace(
    CollapseSpaces(
      ReplaceNonAlnum(
        RemoveTags(
          RemoveFeat(
            RemoveDiacritics(ToLower(s)), 1), 1), 1), 1))

(***************************************************************************)
(* Similarity.  A score is a rational num/den in 0..100, kept as a record  *)
(* so that comparisons are exact.                                          *)
(***************************************************************************)
Min2(a, b) == IF a <= b THEN a ELSE b

Max2(a, b) == IF a >= b THEN a ELSE b

\* fuzzy.LevenshteinDistance
RECURSIVE LevenshteinDistance(_, _)
LevenshteinDistance(s, t) ==
  IF s = <<>> THEN Len(t)
  ELSE IF t = <<>> THEN Len(s)
  ELSE Min2(Min2(LevenshteinDistance(Tail(s), t) + 1,
                 LevenshteinDistance(s, Tail(t)) + 1),
            LevenshteinDistance(Tail(s), Tail(t))
              + (IF Head(s) = Head(t) THEN 0 ELSE 1))

Rat(n, d) == [num |-> n, den |-> d]

RatLess(a, b) == a.num * b.den < b.num * a.den

RatGeq(a, b) == ~RatLess(a, b)

RatEq(a, b) == a.num * b.den = b.num * a.den

\* variant of normalizedLevenshtein: the distance is divided by the length of
\* the first string
normalizedLevenshteinByFirst(s1, s2) ==
  IF Len(s1) = 0 THEN Rat(100, 1)
  ELSE Rat((Len(s1) - LevenshteinDistance(s1, s2)) * 100, Len(s1))

normalizedLevenshtein(s1, s2) ==
  LET distance == LevenshteinDistance(s1, s2)
      maxLen   == Max2(Len(s1), Len(s2))
  IN  IF maxLen = 0 THEN Rat(100, 1)
      ELSE Rat((maxLen - distance) * 100, maxLen)

\* strings.Fields: the maximal runs of non-space characters
RECURSIVE FieldsFrom(_, _, _)
FieldsFrom(s, i, cur) ==
  IF i > Len(s) THEN (IF cur = <<>> THEN <<>> ELSE <<cur>>)
  ELSE IF IsSpace(s[i])
       THEN (IF cur = <<>> THEN <<>> ELSE <<cur>>) \o FieldsFrom(s, i + 1, <<>>)
       ELSE FieldsFrom(s, i + 1, Append(cur, s[i]))

Fields(s) == FieldsFrom(s, 1, <<>>)

ToSet(seq) == {seq[i] : i \in 1..Len(seq)}

tokenSetRatio(s1, s2) ==
  LET words1 == ToSet(Fields(s1))
      words2 == ToSet(Fields(s2))
  IN  IF words1 = {} /\ words2 = {} THEN Rat(100, 1)
      ELSE IF words1 = {} \/ words2 = {} THEN Rat(0, 1)
      ELSE Rat(Cardinality(words1 \cap words2) * 100,
               Cardinality(words1 \cup words2))

\* strings.Join(names, " ")
RECURSIVE Join(_)
Join(names) ==
  IF names = <<>> THEN <<>>
  ELSE IF Len(names) = 1 THEN names[1]
  ELSE names[1] \o <<" ">> \o Join(Tail(names))

\* (t * tw + a * 0.45 + al * 0.10) with the weights in hundredths
WeightedSum(t, tw, a, al) ==
  Rat(t.num * tw * a.den * al.den
        + a.num * 45 * t.den * al.den
        + al.num * 10 * t.den * a.den,
      100 * t.den * a.den * al.den)

\* variant of SameIsrc: the identifiers are never compared
SameIsrcNever(isrcA, isrcB) == FALSE

\* the exact identifier check: isrcA != "" && isrcA == isrcB
SameIsrc(isrcA, isrcB) == isrcA # <<>> /\ isrcA = isrcB

CalculateSimilarity(songA, songB) ==
  IF SameIsrc(songA.isrc, songB.isrc) THEN Rat(100, 1)
  ELSE
    LET albumA      == Clean(songA.album)
        albumB      == Clean(songB.album)
        titleScore  == normalizedLevenshtein(Clean(songA.name), Clean(songB.name))
        artistScore == tokenSetRatio(Clean(Join(songA.artists)),
                                     Clean(Join(songB.artists)))
        albumScore  == normalizedLevenshtein(albumA, albumB)
        titleWeight == IF albumA # <<>> /\ albumB # <<>>
                          /\ RatLess(albumScore, Rat(70, 1))
                       THEN 30 ELSE 45
    IN  IF RatLess(artistScore, Rat(50, 1))
        THEN Rat(artistScore.num, artistScore.den * 2)
        ELSE WeightedSum(titleScore, titleWeight, artistScore, albumScore)

\* variant of AreDuplicates: the score must exceed the threshold
AreDuplicatesStrict(songA, songB, threshold) ==
  RatLess(Rat(threshold, 1), CalculateSimilarity(songA, songB))

\* variant of AreDuplicates: the comparison is inverted
AreDuplicatesBelow(songA, songB, threshold) ==
  RatLess(CalculateSimilarity(songA, songB), Rat(threshold, 1))

AreDuplicates(songA, songB, threshold) ==
  RatGeq(CalculateSimilarity(songA, songB), Rat(threshold, 1))

\* variant of AppendUnique: the song is put in front of the unique songs
AppendUniqueInFront(uniqueSongs, song) == <<song>> \o uniqueSongs

\* uniqueSongs = append(uniqueSongs, song)
AppendUnique(uniqueSongs, song) == Append(uniqueSongs, song)

\* the greedy pass of DeduplicateSongs over the songs not yet examined
RECURSIVE DedupFrom(_, _, _)
DedupFrom(songs, uniqueSongs, threshold) ==
  IF songs = <<>> THEN uniqueSongs
  ELSE LET song        == Head(songs)
           isDuplicate == \E k \in 1..Len(uniqueSongs) :
                             AreDuplicates(song, uniqueSongs[k], threshold)
       IN  DedupFrom(Tail(songs),
                     IF isDuplicate THEN uniqueSongs
                     ELSE AppendUnique(uniqueSongs, song),
                     threshold)

DeduplicateSongs(songs, threshold) == DedupFrom(songs, <<>>, threshold)

(***************************************************************************)
(* The world the engine runs in: a catalogue of songs, the playlists of    *)
(* the source providers and the sync configurations a caller may pass.     *)
(***************************************************************************)
Song(n, ar, al, isrc, id) ==
  [name |-> n, artists |-> ar, album |-> al, isrc |-> isrc, id |-> id]

Catalog ==
  << Song(<<"A", "b">>, <<<<"x">>>>, <<"m">>, <<"I", "1">>, "a1"),
     Song(<<"c", "d">>, <<<<"y">>>>, <<"n">>, <<>>, "a2"),
     Song(<<"a", "b", " ", "(", "L", "i", "v", "e", ")">>, <<<<"X">>>>,
          <<"m">>, <<>>, "a3"),
     Song(<<"z", "z">>, <<<<"v">>>>, <<>>, <<"I", "1">>, "b4"),
     Song(<<"e", "f">>, <<<<"y">>, <<"x">>>>, <<"n">>, <<>>, "b5"),
     Song(<<"a", "b", "c">>, <<<<"x">>>>, <<"n">>, <<>>, "c6") >>

SongIds == {Catalog[i].id : i \in 1..Len(Catalog)}

SongById(id) == CHOOSE s \in ToSet(Catalog) : s.id = id

\* the playlists the source providers hold, as lists of song ids
Playlists ==
  [p \in {"p1", "p2", "p3"} |->
     CASE p = "p1" -> <<"a1", "a2", "a3">>
       [] p = "p2" -> <<"b4", "b5">>
       [] p = "p3" -> <<"a2">>]

\* the identifier the destination provider's search answers for a song
DestIdOf(song) ==
  CASE song.id \in {"a1", "a3", "b4"} -> "t1"
    [] song.id = "a2" -> "t2"
    [] OTHER -> "t5"

Datasources == {"SPOTIFY", "YOUTUBE", "TIDAL"}

Playlist(ds, pl) == [datasource |-> ds, playlistId |-> pl]

OneWaySync(src, dst, ow) ==
  [variant |-> "OneWay", sources |-> <<src>>, destination |-> dst,
   overwriteExisting |-> ow]

PlaylistMergeSync(srcs, dst, ow) ==
  [variant |-> "Merge", sources |-> srcs, destination |-> dst,
   overwriteExisting |-> ow]

UnknownSync ==
  [variant |-> "Unknown", sources |-> <<>>,
   destination |-> Playlist("UNSPECIFIED", "none"),
   overwriteExisting |-> FALSE]

\* the sync configurations RunSync is called with
SyncConfigs ==
  { OneWaySync(Playlist("SPOTIFY", "p1"), Playlist("YOUTUBE", "d"), ow) :
      ow \in BOOLEAN }
  \cup
  { PlaylistMergeSync(<<Playlist("SPOTIFY", "p1"), Playlist("TIDAL", "p2")>>,
                      Playlist("YOUTUBE", "d"), ow) : ow \in BOOLEAN }
  \cup
  { PlaylistMergeSync(<<Playlist("SPOTIFY", "p3"), Playlist("UNSPECIFIED", "p2"),
                        Playlist("TIDAL", "p1")>>,
                      Playlist("YOUTUBE", "d"), TRUE),
    OneWaySync(Playlist("SPOTIFY", "p3"), Playlist("UNSPECIFIED", "d"), FALSE),
    UnknownSync }

(***************************************************************************)
(* State.                                                                  *)
(***************************************************************************)
VARIABLES
  pc,            \* position of the RunSync call in its code
  runNo,         \* number of RunSync calls made so far; the run id of the current one
  sync,          \* the sync configuration of the current call
  llmEnabled,    \* what shouldNormalize read from the configuration in this call
  syncRun,       \* the in-memory SyncRun record of the current call
  syncErr,       \* the local syncErr of RunSync ("nil" when no error)
  panicked,      \* a panic is unwinding the current call
  retVal,        \* what the current call returned: "none" (not yet), "nil", "err"
  store,         \* run store: run id -> persisted record, NoRun when absent
  dest,          \* contents of the destination playlist (destination song ids)
  srcIdx,        \* loop index of runPlaylistMergeSync over the sources
  songs,         \* songs fetched (and normalized, deduplicated) so far
  searchIdx,     \* loop index of getSearchedSongs
  searchedSongs, \* result list r of getSearchedSongs
  writes,        \* history: the store writes the current call attempted, oldest first
  broadcasts,    \* history: the runs the current call handed to Broadcast, oldest first
  calls,         \* history: provider calls of the current RunSync call
  outcomes,      \* history: outcome of each search of the current call
  skipped,       \* history: sources of the current call whose read failed
  added,         \* history: the song lists handed to AddToPlaylist in this call
  subscribers,   \* SyncStatusBroadcaster.subscribers: sync id -> list of channels
  chans,         \* the channels made by Subscribe: buffer and whether closed
  bc,            \* the Broadcast calls in progress, one record per caller
  faults,        \* history: the run-time panics of channel operations
  hpc,           \* position of SubscribeToSyncStatus in its code
  hch,           \* its local subscription (a channel, 0 before Subscribe)
  mostRecentRun, \* its local mostRecentRun (a status, "nil" when nil)
  streamed,      \* history: the statuses it handed to stream.Send
  afterRead,     \* history: the statuses broadcast after it read the store
  reqPc,         \* position of runSyncImpl.ProcessRequest in its code
  response,      \* the response ProcessRequest returned ("none" before)
  reqCtxDone,    \* the context of the request has ended
  goPc,          \* position of the goroutine ProcessRequest starts
  runCtx,        \* the context the goroutine passes to RunSync
  access,        \* the request the handlers were called with, and how its checks ended
  syncStore,     \* sync store: the stored sync configs of the user, oldest first
  tokens,        \* datasource token store: the datasources the user has connected
  csCalls,       \* the createSyncImpl.ProcessRequest calls in progress, one per caller
  csResp,        \* history: the last CreateSync call that returned, with its response
  mSongs,        \* matching: the songs a caller passes to the matching package
  mThreshold,    \* matching: the threshold the caller passes
  mPc,           \* matching: which function was called ("start" before the call)
  mResult,       \* matching: the list DeduplicateSongs returned
  mPair,         \* matching: the positions of the songs passed to CalculateSimilarity
  mScore,        \* matching: the score CalculateSimilarity returned
  mText,         \* matching: the string a caller passes to Clean
  mClean,        \* matching: the string Clean returned
  searchCall     \* datasources: the locals of a call of a client's Search

\* the variables of RunSync and its strategies
runVars == << pc, runNo, sync, llmEnabled, syncRun, syncErr, panicked, retVal,
              store, dest, srcIdx, songs, searchIdx, searchedSongs,
              writes, broadcasts, calls, outcomes, skipped, added >>

\* the variables of the broadcaster
bcastVars == << subscribers, chans, bc, faults >>

\* the variables of the status stream handler
streamVars == << hpc, hch, mostRecentRun, streamed, afterRead >>

\* the variables of the RunSync request handler
reqVars == << reqPc, response, reqCtxDone, goPc, runCtx, access >>

\* the variables of the CreateSync and UnlinkDatasource handlers
configVars == << syncStore, tokens, csCalls, csResp >>

\* the variables of a caller of the matching package
matchVars == << mSongs, mThreshold, mPc, mResult, mPair, mScore, mText, mClean,
               searchCall >>

\* the variables RunSync never touches
serviceVars == << bcastVars, streamVars, reqVars, configVars, matchVars >>

vars == << runVars, bcastVars, streamVars, reqVars, configVars, matchVars >>

NoRun == [status |-> "NONE", unmatchedSongs |-> <<>>]

RunIds == 1..MaxRuns

SyncId == "sync-1"

\* the locals of the strategy functions
strategyVars == << srcIdx, songs, searchIdx, searchedSongs >>

historyVars == << calls, outcomes, skipped, added >>

EngineInit ==
  /\ pc = "idle"
  /\ runNo = 0
  /\ sync = UnknownSync
  /\ llmEnabled = FALSE
  /\ syncRun = [syncId |-> SyncId, runId |-> 0, status |-> "NONE",
                unmatchedSongs |-> <<>>]
  /\ syncErr = "nil"
  /\ panicked = FALSE
  /\ retVal = "none"
  /\ store = [r \in RunIds |-> NoRun]
  /\ dest \in {<<>>, <<"t1">>, <<"t9", "t2">>}
  /\ srcIdx = 1
  /\ songs = <<>>
  /\ searchIdx = 1
  /\ searchedSongs = <<>>
  /\ writes = <<>>
  /\ broadcasts = <<>>
  /\ calls = <<>>
  /\ outcomes = <<>>
  /\ skipped = {}
  /\ added = <<>>

(***************************************************************************)
(* Broadcaster, status stream handler and request handler: the data they   *)
(* work on and their state after construction.                             *)
(***************************************************************************)
\* the sync ids callers subscribe and broadcast under
SyncIds == {"sync-1", "sync-2"}

\* number of channels Subscribe may make
MaxChans == 2

ChanIds == 1..MaxChans

\* capacity of the channel Subscribe makes
ChanCap == 10

\* the goroutine that calls Broadcast
Callers == {"g1"}

NoChan == [made |-> FALSE, buf |-> <<>>, closed |-> FALSE]

\* make(chan *SyncRun, 10)
MakeChan == [made |-> TRUE, buf |-> <<>>, closed |-> FALSE]

NoCall == [pc |-> "idle", run |-> "nil", snap |-> <<>>, i |-> 1,
           got |-> {}, dropped |-> {}]

\* make(map[string][]chan *SyncRun)
NewSyncStatusBroadcaster == [s \in {} |-> <<>>]

BroadcasterInit ==
  /\ subscribers = NewSyncStatusBroadcaster
  /\ chans = [c \in ChanIds |-> NoChan]
  /\ bc = [p \in Callers |-> NoCall]
  /\ faults = {}

StreamInit ==
  /\ hpc = "start"
  /\ hch = 0
  /\ mostRecentRun = "nil"
  /\ streamed = {}
  /\ afterRead = {}

\* no request has reached the handlers through their checks
NoAccess == [pc |-> "none", rpc |-> "none", user |-> "nil", syncId |-> "",
             code |-> "none"]

RequestInit ==
  /\ reqPc = "idle"
  /\ response = [code |-> "none", status |-> "none"]
  /\ reqCtxDone = FALSE
  /\ goPc = "none"
  /\ runCtx = "none"
  /\ access = NoAccess

\* var bestMatch core.Song: nil
NilSong == Song(<<>>, <<>>, <<>>, <<>>, "nil")

\* no call of Search is in progress
NoSearch ==
  [pc |-> "idle", provider |-> "none", songToSearch |-> NilSong, q |-> 1,
   i |-> 1, bestMatch |-> NilSong, highestScore |-> [num |-> 0, den |-> 1],
   examined |-> {}, ret |-> [song |-> NilSong, err |-> "none"]]

\* the goroutines that may run createSyncImpl.ProcessRequest at the same time
CsCallers == {"c1", "c2"}

\* no CreateSync call in progress for a caller
NoCsCall == [pc |-> "idle", req |-> UnknownSync]

\* no CreateSync call has returned yet
NoCsResp == [req |-> UnknownSync, code |-> "none", err |-> "nil"]

\* the datasources the user has connected when the handlers start serving
ConnectedAtStart == {"SPOTIFY", "YOUTUBE"}

\* state of the sync store, the token store and the CreateSync handler when
\* the server starts serving the user
ConfigInit ==
  /\ syncStore = <<>>
  /\ tokens = ConnectedAtStart
  /\ csCalls = [p \in CsCallers |-> NoCsCall]
  /\ csResp = NoCsResp

\* no call of the matching package has been made
MatchIdle ==
  /\ mSongs = <<>>
  /\ mThreshold = 0
  /\ mPc = "idle"
  /\ mResult = <<>>
  /\ mPair = <<>>
  /\ mScore = [num |-> 0, den |-> 1]
  /\ mText = <<>>
  /\ mClean = <<>>
  /\ searchCall = NoSearch

Init ==
  /\ EngineInit /\ BroadcasterInit /\ StreamInit /\ RequestInit /\ ConfigInit
  /\ MatchIdle

(***************************************************************************)
(* Run store (CreateSyncRun, UpdateSyncRun, GetSyncs) and broadcaster.     *)
(***************************************************************************)
\* the record the store keeps for a run
Persisted(run) == [status |-> run.status, unmatchedSongs |-> run.unmatchedSongs]

\* CreateSyncRun succeeded: the record is inserted under its run id
CreateSyncRun(st, run) == [st EXCEPT ![run.runId] = Persisted(run)]

\* UpdateSyncRun succeeded: the record with that run id is overwritten; an
\* update that matches no record changes nothing
UpdateSyncRun(st, run) ==
  IF st[run.runId] = NoRun THEN st
  ELSE [st EXCEPT ![run.runId] = Persisted(run)]

\* GetSyncs(runIdFilter = {run id}): the records with that run id
GetSyncs(st, runId) ==
  IF st[runId] = NoRun THEN {}
  ELSE {[syncId |-> SyncId, runId |-> runId, status |-> st[runId].status,
         unmatchedSongs |-> st[runId].unmatchedSongs]}

\* variant of Broadcast: the run is handed to the broadcaster twice
BroadcastTwice(log, run) ==
  log \o << [runId |-> run.runId, status |-> run.status],
           [runId |-> run.runId, status |-> run.status] >>

\* SyncStatusBroadcaster.Broadcast, as seen by the engine
Broadcast(log, run) == Append(log, [runId |-> run.runId, status |-> run.status])

\* variant of WriteErr: the error of the write is dropped
WriteErrIgnored(writeOk) == FALSE

\* the error test after CreateSyncRun / UpdateSyncRun: a failed write makes
\* storeAndBroadcastSyncRun return the error at once
WriteErr(writeOk) == ~writeOk

\* storeAndBroadcastSyncRun(run, isCreate) when the write answers writeOk and
\* the re-read answers readOk: the new store, the write and broadcast
\* histories, the record returned and whether an error is returned.
storeAndBroadcastSyncRun(run, isCreate, writeOk, readOk) ==
  LET st2  == IF ~writeOk THEN store
              ELSE IF isCreate THEN CreateSyncRun(store, run)
              ELSE UpdateSyncRun(store, run)
      runs == IF readOk THEN GetSyncs(st2, run.runId) ELSE {}
      out  == IF runs = {} THEN run ELSE CHOOSE r \in runs : TRUE
  IN  [ store      |-> st2,
        writes     |-> Append(writes, [runId |-> run.runId,
                                       op |-> IF isCreate THEN "create" ELSE "update",
                                       status |-> run.status, ok |-> writeOk]),
        broadcasts |-> IF WriteErr(writeOk) THEN broadcasts
                       ELSE Broadcast(broadcasts, out),
        run        |-> out,
        err        |-> WriteErr(writeOk) ]

(***************************************************************************)
(* RunSync.                                                                *)
(***************************************************************************)
\* getClient: only the three known datasources have a client
getClientErr(datasource) == datasource \notin Datasources

\* the SyncRun literal at the top of RunSync
NewSyncRun(runId) ==
  [syncId |-> SyncId, runId |-> runId, status |-> "PENDING",
   unmatchedSongs |-> <<>>]

\* RunSync is entered: the run record is built in memory with a fresh run id
\* and the deferred function is registered.  Nothing is validated.
RunSyncEntered ==
  /\ pc \in {"idle", "done"}
  /\ runNo < MaxRuns
  /\ \E cfg \in SyncConfigs : sync' = cfg
  /\ llmEnabled' = FALSE
  /\ runNo' = runNo + 1
  /\ syncRun' = NewSyncRun(runNo + 1)
  /\ syncErr' = "nil"
  /\ panicked' = FALSE
  /\ retVal' = "none"
  /\ srcIdx' = 1
  /\ songs' = <<>>
  /\ searchIdx' = 1
  /\ searchedSongs' = <<>>
  /\ calls' = <<>>
  /\ outcomes' = <<>>
  /\ skipped' = {}
  /\ added' = <<>>
  /\ writes' = <<>>
  /\ broadcasts' = <<>>
  /\ pc' = "storePending"
  /\ UNCHANGED << store, dest >>

\* a call of RunSync
StartRunSync == RunSyncEntered /\ UNCHANGED serviceVars

\* step 1: store and broadcast the initial PENDING status
StorePending ==
  /\ pc = "storePending"
  /\ \E writeOk \in BOOLEAN, readOk \in BOOLEAN :
       LET r == storeAndBroadcastSyncRun(syncRun, TRUE, writeOk, readOk)
       IN  /\ store' = r.store
           /\ writes' = r.writes
           /\ broadcasts' = r.broadcasts
           /\ IF r.err
              THEN /\ retVal' = "err"
                   /\ pc' = "deferred"
                   /\ UNCHANGED syncRun
              ELSE /\ syncRun' = r.run
                   /\ pc' = "storeRunning"
                   /\ UNCHANGED retVal
  /\ UNCHANGED << runNo, sync, llmEnabled, syncErr, panicked, dest >>
  /\ UNCHANGED strategyVars
  /\ UNCHANGED historyVars
  /\ UNCHANGED serviceVars

\* step 2: set RUNNING in memory, then store and broadcast
StoreRunning ==
  /\ pc = "storeRunning"
  /\ \E writeOk \in BOOLEAN, readOk \in BOOLEAN :
       LET run == [syncRun EXCEPT !.status = "RUNNING"]
           r   == storeAndBroadcastSyncRun(run, FALSE, writeOk, readOk)
       IN  /\ store' = r.store
           /\ writes' = r.writes
           /\ broadcasts' = r.broadcasts
           /\ IF r.err
              THEN /\ retVal' = "err"
                   /\ pc' = "deferred"
                   /\ syncRun' = run
              ELSE /\ syncRun' = r.run
                   /\ pc' = "dispatch"
                   /\ UNCHANGED retVal
  /\ UNCHANGED << runNo, sync, llmEnabled, syncErr, panicked, dest >>
  /\ UNCHANGED strategyVars
  /\ UNCHANGED historyVars
  /\ UNCHANGED serviceVars

\* step 3: the type switch over the sync variant
Dispatch ==
  /\ pc = "dispatch"
  /\ CASE sync.variant = "OneWay" -> pc' = "owFetch" /\ UNCHANGED syncErr
       [] sync.variant = "Merge"  -> pc' = "mgFetch" /\ UNCHANGED syncErr
       [] OTHER -> pc' = "finish" /\ syncErr' = "unknown sync variant"
  /\ UNCHANGED << runNo, sync, llmEnabled, syncRun, panicked, retVal, store,
                  dest, writes, broadcasts >>
  /\ UNCHANGED strategyVars
  /\ UNCHANGED historyVars
  /\ UNCHANGED serviceVars

\* the strategy returned err: RunSync goes on at step 4
StrategyReturns(err) ==
  /\ syncErr' = err
  /\ pc' = "finish"

\* variant of FinalStatus: the test of the error is inverted
FinalStatusInverted(err) == IF err = "nil" THEN "FAILED" ELSE "COMPLETED"

\* step 4: the final status in memory and the value returned
FinalStatus(err) == IF err # "nil" THEN "FAILED" ELSE "COMPLETED"

Finish ==
  /\ pc = "finish"
  /\ syncRun' = [syncRun EXCEPT !.status = FinalStatus(syncErr)]
  /\ retVal' = IF syncErr # "nil" THEN "err" ELSE "nil"
  /\ pc' = "deferred"
  /\ UNCHANGED << runNo, sync, llmEnabled, syncErr, panicked, store, dest,
                  writes, broadcasts >>
  /\ UNCHANGED strategyVars
  /\ UNCHANGED historyVars
  /\ UNCHANGED serviceVars

\* variant of RecoveredRun: the panic is recovered but the status is left as
\* it was
RecoveredRunStatusKept(run, recovered) == run

\* variant of RecoveredRun: the deferred function works on the record as it
\* was when the defer statement was executed (status PENDING)
RecoveredRunAtDeferTime(run, recovered) ==
  [run EXCEPT !.status = IF recovered THEN "FAILED" ELSE "PENDING"]

\* the status the deferred function leaves in memory: FAILED when recover()
\* returned a panic value
RecoveredRun(run, recovered) ==
  IF recovered THEN [run EXCEPT !.status = "FAILED"] ELSE run

\* variant of ReturnAfterDefer: a recovered panic is returned as an error
ReturnAfterDeferAsError(ret, recovered) == IF recovered THEN "err" ELSE ret

\* what RunSync returns once the deferred function has run: a recovered panic
\* makes it return the zero value of its (unnamed) result
ReturnAfterDefer(ret, recovered) == IF recovered THEN "nil" ELSE ret

\* the deferred function: recover, then store and broadcast the status the
\* record has in memory, whatever it is
Deferred ==
  /\ pc = "deferred"
  /\ \E writeOk \in BOOLEAN, readOk \in BOOLEAN :
       LET run == RecoveredRun(syncRun, panicked)
           r   == storeAndBroadcastSyncRun(run, FALSE, writeOk, readOk)
       IN  /\ store' = r.store
           /\ writes' = r.writes
           /\ broadcasts' = r.broadcasts
           /\ syncRun' = run
  /\ retVal' = ReturnAfterDefer(retVal, panicked)
  /\ pc' = "done"
  /\ UNCHANGED << runNo, sync, llmEnabled, syncErr, panicked, dest >>
  /\ UNCHANGED strategyVars
  /\ UNCHANGED historyVars
  /\ UNCHANGED serviceVars

(***************************************************************************)
(* Strategies.                                                             *)
(***************************************************************************)
engineVars == << runNo, sync, syncRun, panicked, retVal, store,
                 writes, broadcasts >>

\* a call to a provider or to the normalizer, with its outcome
Call(op, ok) == [op |-> op, ok |-> ok]

\* NormalizeSongs answered: the batch comes back cleaned, song for song
NormalizeSongs(batch) == batch

\* runOneWaySync: both clients, then the read of the source playlist
OneWayFetch ==
  /\ pc = "owFetch"
  /\ IF getClientErr(sync.sources[1].datasource)
        \/ getClientErr(sync.destination.datasource)
     THEN /\ StrategyReturns("unsupported datasource")
          /\ UNCHANGED << songs, calls >>
     ELSE /\ \E ok \in BOOLEAN :
               /\ calls' = Append(calls, Call("fetch", ok))
               /\ IF ok
                  THEN /\ songs' = Playlists[sync.sources[1].playlistId]
                       /\ pc' = "owNormalize"
                       /\ UNCHANGED syncErr
                  ELSE /\ StrategyReturns("failed to fetch source playlist")
                       /\ UNCHANGED songs
  /\ UNCHANGED << engineVars, llmEnabled >>
  /\ UNCHANGED << dest, srcIdx, searchIdx, searchedSongs, outcomes, skipped, added >>
  /\ UNCHANGED serviceVars

\* runOneWaySync: the optional normalizer call
OneWayNormalize ==
  /\ pc = "owNormalize"
  /\ \E llm \in BOOLEAN : llmEnabled' = llm
  /\ IF llmEnabled'
     THEN /\ \E ok \in BOOLEAN :
               /\ calls' = Append(calls, Call("normalize", ok))
               /\ IF ok
                  THEN /\ songs' = NormalizeSongs(songs)
                       /\ pc' = "search"
                       /\ UNCHANGED syncErr
                  ELSE /\ StrategyReturns("failed to normalize songs")
                       /\ UNCHANGED songs
     ELSE /\ pc' = "search"
          /\ UNCHANGED << songs, syncErr, calls >>
  /\ UNCHANGED engineVars
  /\ UNCHANGED << dest, srcIdx, searchIdx, searchedSongs, outcomes, skipped, added >>
  /\ UNCHANGED serviceVars

\* variant of AppendSearched: a song whose resolution failed is appended too,
\* without a destination id
AppendSearchedKeepFailed(r, song, ok) ==
  Append(r, IF ok THEN DestIdOf(song) ELSE "")

\* one iteration of getSearchedSongs: the song is appended with its
\* destination id when GetIdByDatasource answers, and passed over when it fails
AppendSearched(r, song, ok) ==
  IF ok THEN Append(r, DestIdOf(song)) ELSE r

Search ==
  /\ pc = "search"
  /\ searchIdx <= Len(songs)
  /\ \E ok \in BOOLEAN :
       /\ searchedSongs' = AppendSearched(searchedSongs, SongById(songs[searchIdx]), ok)
       /\ outcomes' = Append(outcomes, ok)
       /\ calls' = Append(calls, Call("search", ok))
  /\ searchIdx' = searchIdx + 1
  /\ UNCHANGED << engineVars, llmEnabled >>
  /\ UNCHANGED << pc, syncErr, dest, srcIdx, songs, skipped, added >>
  /\ UNCHANGED serviceVars

\* getSearchedSongs returns (r, nil)
SearchReturn ==
  /\ pc = "search"
  /\ searchIdx > Len(songs)
  /\ pc' = IF sync.variant = "OneWay" THEN "owClear" ELSE "add"
  /\ UNCHANGED << engineVars, llmEnabled >>
  /\ UNCHANGED << syncErr, dest >>
  /\ UNCHANGED strategyVars
  /\ UNCHANGED historyVars
  /\ UNCHANGED serviceVars

\* variant of ShouldClear: the destination is cleared in every run
ShouldClearAlways(cfg) == TRUE

\* if sync.OverwriteExisting
ShouldClear(cfg) == cfg.overwriteExisting

\* the optional ClearPlaylist of either strategy, going on at pc next
ClearStep(next) ==
  IF ShouldClear(sync)
  THEN /\ \E ok \in BOOLEAN :
            /\ calls' = Append(calls, Call("clear", ok))
            /\ IF ok
               THEN /\ dest' = <<>>
                    /\ pc' = next
                    /\ UNCHANGED syncErr
               ELSE /\ StrategyReturns("failed to clear destination playlist")
                    /\ UNCHANGED dest
  ELSE /\ pc' = next
       /\ UNCHANGED << dest, syncErr, calls >>

\* runOneWaySync: clear the destination after the searches
OneWayClear ==
  /\ pc = "owClear"
  /\ ClearStep("add")
  /\ UNCHANGED << engineVars, llmEnabled >>
  /\ UNCHANGED strategyVars
  /\ UNCHANGED << outcomes, skipped, added >>
  /\ UNCHANGED serviceVars

\* AddToPlaylist, the last step of both strategies
AddToPlaylist ==
  /\ pc = "add"
  /\ added' = Append(added, searchedSongs)
  /\ \E ok \in BOOLEAN :
       /\ calls' = Append(calls, Call("add", ok))
       /\ IF ok
          THEN /\ dest' = dest \o searchedSongs
               /\ StrategyReturns("nil")
          ELSE /\ StrategyReturns("failed to add songs to destination playlist")
               /\ UNCHANGED dest
  /\ UNCHANGED << engineVars, llmEnabled >>
  /\ UNCHANGED strategyVars
  /\ UNCHANGED << outcomes, skipped >>
  /\ UNCHANGED serviceVars

\* variant of MergeCollect: a failed read throws away what was collected
MergeCollectReset(allSongs, fetched, ok) ==
  IF ok THEN allSongs \o fetched ELSE <<>>

\* one iteration of the source loop of runPlaylistMergeSync: the songs read
\* are appended; a failed read leaves the list as it is
MergeCollect(allSongs, fetched, ok) ==
  IF ok THEN allSongs \o fetched ELSE allSongs

MergeFetch ==
  /\ pc = "mgFetch"
  /\ srcIdx <= Len(sync.sources)
  /\ IF getClientErr(sync.sources[srcIdx].datasource)
     THEN /\ StrategyReturns("failed to get source client")
          /\ UNCHANGED << songs, srcIdx, calls, skipped >>
     ELSE /\ \E ok \in BOOLEAN :
               /\ calls' = Append(calls, Call("fetch", ok))
               /\ songs' = MergeCollect(songs,
                                        Playlists[sync.sources[srcIdx].playlistId], ok)
               /\ skipped' = IF ok THEN skipped ELSE skipped \cup {srcIdx}
          /\ srcIdx' = srcIdx + 1
          /\ UNCHANGED << pc, syncErr >>
  /\ UNCHANGED << engineVars, llmEnabled >>
  /\ UNCHANGED << dest, searchIdx, searchedSongs, outcomes, added >>
  /\ UNCHANGED serviceVars

\* the similarity threshold runPlaylistMergeSync passes to DeduplicateSongs
MergeThreshold == 90

\* DeduplicateSongs over a list of song ids
DeduplicateIds(ids, threshold) ==
  LET unique == DeduplicateSongs([i \in 1..Len(ids) |-> SongById(ids[i])], threshold)
  IN  [i \in 1..Len(unique) |-> unique[i].id]

\* runPlaylistMergeSync after the source loop: deduplicate, then get the
\* destination client
MergeDedupe ==
  /\ pc = "mgFetch"
  /\ srcIdx > Len(sync.sources)
  /\ songs' = DeduplicateIds(songs, MergeThreshold)
  /\ IF getClientErr(sync.destination.datasource)
     THEN StrategyReturns("failed to get destination client")
     ELSE pc' = "mgClear" /\ UNCHANGED syncErr
  /\ UNCHANGED << engineVars, llmEnabled >>
  /\ UNCHANGED << dest, srcIdx, searchIdx, searchedSongs >>
  /\ UNCHANGED historyVars
  /\ UNCHANGED serviceVars

\* runPlaylistMergeSync: clear the destination, before the searches
MergeClear ==
  /\ pc = "mgClear"
  /\ ClearStep("search")
  /\ UNCHANGED << engineVars, llmEnabled >>
  /\ UNCHANGED strategyVars
  /\ UNCHANGED << outcomes, skipped, added >>
  /\ UNCHANGED serviceVars

StrategyPcs == {"owFetch", "owNormalize", "search", "owClear", "add",
                "mgFetch", "mgClear"}

\* the strategy panics: the stack unwinds to the deferred function of RunSync
Panic ==
  /\ pc \in StrategyPcs
  /\ panicked' = TRUE
  /\ pc' = "deferred"
  /\ UNCHANGED << runNo, sync, llmEnabled, syncRun, syncErr, retVal, store,
                  dest, writes, broadcasts >>
  /\ UNCHANGED strategyVars
  /\ UNCHANGED historyVars
  /\ UNCHANGED serviceVars

Next ==
  \/ StartRunSync
  \/ StorePending
  \/ StoreRunning
  \/ Dispatch
  \/ OneWayFetch
  \/ OneWayNormalize
  \/ Search
  \/ SearchReturn
  \/ OneWayClear
  \/ AddToPlaylist
  \/ MergeFetch
  \/ MergeDedupe
  \/ MergeClear
  \/ Panic
  \/ Finish
  \/ Deferred

Spec == Init /\ [][Next]_vars

(***************************************************************************)
(* Properties of the run lifecycle.                                        *)
(***************************************************************************)
Terminal == {"COMPLETED", "FAILED"}

Rank(status) ==
  CASE status = "NONE"    -> 0
    [] status = "PENDING" -> 1
    [] status = "RUNNING" -> 2
    [] OTHER              -> 3

\* the store writes attempted for run r, oldest first
WritesOf(r) == SelectSeq(writes, LAMBDA w : w.runId = r)

\* the statuses broadcast for run r, oldest first
BroadcastsOf(r) == SelectSeq(broadcasts, LAMBDA b : b.runId = r)

\* CreateSyncRun succeeded for run r
Created(r) ==
  \E i \in 1..Len(writes) :
    writes[i].runId = r /\ writes[i].op = "create" /\ writes[i].ok

\* CreateSyncRun failed for run r
CreateFailed(r) ==
  \E i \in 1..Len(writes) :
    writes[i].runId = r /\ writes[i].op = "create" /\ ~writes[i].ok

\* status st of run r was written to the store successfully
PersistedOk(r, st) ==
  \E i \in 1..Len(writes) :
    writes[i].runId = r /\ writes[i].status = st /\ writes[i].ok

\* status st of run r was handed to Broadcast
BroadcastDone(r, st) ==
  \E i \in 1..Len(broadcasts) :
    broadcasts[i].runId = r /\ broadcasts[i].status = st

\* C1: for every run record RunSync creates, once RunSync has returned the
\* last status it wrote for the run is terminal (never PENDING or RUNNING)
\* and a terminal status was written exactly once.
C1_TerminalWrittenLastOnce ==
  (pc = "done" /\ Created(runNo))
    => /\ WritesOf(runNo)[Len(WritesOf(runNo))].status \in Terminal
       /\ Cardinality({i \in 1..Len(writes) : writes[i].status \in Terminal}) = 1

\* C2: the statuses written for one run id never go back to an earlier
\* stage (PENDING, then RUNNING, then terminal), whatever store or provider
\* call fails, and the status a reader finds in the store for a run never
\* regresses from one step to the next.
C2_WritesOrdered ==
  \A i, j \in 1..Len(writes) :
    (i < j /\ writes[i].runId = writes[j].runId)
      => Rank(writes[i].status) <= Rank(writes[j].status)

C2_StoreStep ==
  \A r \in RunIds : Rank(store'[r].status) >= Rank(store[r].status)

C2_NoStatusRegression == [](C2_WritesOrdered) /\ [][C2_StoreStep]_vars

\* a run that went through the three writes although a provider call failed
C2_Witness ==
  /\ pc = "done"
  /\ Len(WritesOf(runNo)) = 3
  /\ store[runNo].status = "FAILED"
  /\ \E i \in 1..Len(calls) : ~calls[i].ok

\* C3: no provider call is made before both the PENDING and the RUNNING
\* status of the run have been persisted and broadcast.
C3_StatusBeforeProviderIO ==
  (calls # <<>> \/ pc \in StrategyPcs)
    => \A st \in {"PENDING", "RUNNING"} :
         PersistedOk(runNo, st) /\ BroadcastDone(runNo, st)

C3_Witness ==
  /\ \E i \in 1..Len(calls) : calls[i].op = "search"
  /\ \E i \in 1..Len(calls) : calls[i].op = "fetch"

\* the last store write attempted for run r
LastWrite(r) == WritesOf(r)[Len(WritesOf(r))]

\* the last status broadcast for run r
LastBroadcast(r) == BroadcastsOf(r)[Len(BroadcastsOf(r))]

\* C4 as claimed: after a panic of the strategy the final persisted and
\* broadcast status of the run is FAILED and RunSync returns normally.
C4_PanicPersistsFailed ==
  (pc = "done" /\ panicked)
    => /\ store[runNo].status = "FAILED"
       /\ LastBroadcast(runNo).status = "FAILED"
       /\ retVal \in {"nil", "err"}

\* C4 as amended: after a panic of the strategy RunSync returns normally
\* (nil), the record has status FAILED in memory and the last write attempted
\* is an update to FAILED; when that write succeeds the persisted and the last
\* broadcast status are FAILED, when it fails the store keeps RUNNING and
\* FAILED is not broadcast.
C4_PanicRecoveredToFailed ==
  (pc = "done" /\ panicked)
    => /\ retVal = "nil"
       /\ syncRun.status = "FAILED"
       /\ LastWrite(runNo).status = "FAILED"
       /\ LastWrite(runNo).op = "update"
       /\ IF LastWrite(runNo).ok
          THEN /\ store[runNo].status = "FAILED"
               /\ LastBroadcast(runNo).status = "FAILED"
          ELSE /\ store[runNo].status = "RUNNING"
               /\ ~BroadcastDone(runNo, "FAILED")

C4_Witness ==
  /\ pc = "done"
  /\ panicked
  /\ store[runNo].status = "FAILED"
  /\ \E i \in 1..Len(calls) : calls[i].op = "search"

\* a call whose failure makes the strategy return an error
FatalCall ==
  \E i \in 1..Len(calls) :
    /\ ~calls[i].ok
    /\ \/ calls[i].op \in {"normalize", "clear", "add"}
       \/ calls[i].op = "fetch" /\ sync.variant = "OneWay"

\* the configuration names a datasource getClient has no client for
UnsupportedDatasource ==
  \/ getClientErr(sync.destination.datasource)
  \/ \E k \in 1..Len(sync.sources) : getClientErr(sync.sources[k].datasource)

\* C5 as claimed: the terminal status is FAILED iff the strategy returned an
\* error and COMPLETED iff it returned without error.
C5_FailedIffStrategyError ==
  (pc = "done" /\ syncRun.status \in Terminal)
    => /\ syncRun.status = "FAILED" <=> syncErr # "nil"
       /\ syncRun.status = "COMPLETED" <=> syncErr = "nil"

\* C5 as amended: the terminal status is FAILED iff the strategy returned an
\* error (the dispatch of an unknown variant included) or panicked, and
\* COMPLETED iff it returned without error; an error is returned only for a
\* failed fetch of a OneWay source, a failed normalize, clear or add, a
\* datasource without client or an unknown variant, never for a per-song
\* resolution failure or a skipped merge source.
C5_FailedIffErrorOrPanic ==
  (pc = "done" /\ syncRun.status \in Terminal)
    => /\ syncRun.status = "FAILED" <=> (syncErr # "nil" \/ panicked)
       /\ syncRun.status = "COMPLETED" <=> (syncErr = "nil" /\ ~panicked)
       /\ syncErr # "nil"
            => (FatalCall \/ UnsupportedDatasource \/ sync.variant = "Unknown")

C5_Witness ==
  /\ pc = "done"
  /\ syncRun.status = "COMPLETED"
  /\ skipped # {}
  /\ \E i \in 1..Len(outcomes) : ~outcomes[i]

\* C6: RunSync with a sync of unknown variant returns a validation error
\* without creating a run record, without any store write and without any
\* broadcast.
C6_UnknownVariantRejected ==
  (sync.variant = "Unknown" /\ pc # "idle")
    => /\ WritesOf(runNo) = <<>>
       /\ BroadcastsOf(runNo) = <<>>
       /\ store[runNo] = NoRun
       /\ pc = "done" => retVal = "err"

\* C7: when persisting the initial PENDING record fails, RunSync returns an
\* error, makes no provider call, and performs no further store write and no
\* broadcast for that run id.
C7_PendingFailureAborts ==
  CreateFailed(runNo)
    => /\ calls = <<>>
       /\ Len(WritesOf(runNo)) = 1
       /\ BroadcastsOf(runNo) = <<>>
       /\ pc = "done" => retVal = "err"

\* the destination ids of the songs whose search succeeded, in list order
RECURSIVE ResolvedFrom(_, _, _)
ResolvedFrom(ids, oc, i) ==
  IF i > Len(oc) \/ i > Len(ids) THEN <<>>
  ELSE (IF oc[i] THEN <<DestIdOf(SongById(ids[i]))>> ELSE <<>>)
         \o ResolvedFrom(ids, oc, i + 1)

Failures == Cardinality({i \in 1..Len(outcomes) : ~outcomes[i]})

AddSucceeded == \E i \in 1..Len(calls) : calls[i].op = "add" /\ calls[i].ok

IsSuffix(t, s) ==
  /\ Len(t) <= Len(s)
  /\ \A i \in 1..Len(t) : s[Len(s) - Len(t) + i] = t[i]

\* C8: in a OneWay run whose fetch, clear and add succeed, the run ends
\* COMPLETED whatever searches failed, and the destination receives, in one
\* addition, exactly the songs that resolved, in source order.
C8_OneWaySkipsUnresolved ==
  (sync.variant = "OneWay" /\ pc = "done" /\ AddSucceeded)
    => /\ syncRun.status = "COMPLETED"
       /\ Len(outcomes) = Len(Playlists[sync.sources[1].playlistId])
       /\ added = << ResolvedFrom(Playlists[sync.sources[1].playlistId], outcomes, 1) >>
       /\ Len(added[1]) = Len(Playlists[sync.sources[1].playlistId]) - Failures
       /\ IsSuffix(added[1], dest)
       /\ sync.overwriteExisting => dest = added[1]

\* 3 source songs, 1 resolution failure, 2 additions
C8_Witness ==
  /\ sync.variant = "OneWay"
  /\ pc = "done"
  /\ syncRun.status = "COMPLETED"
  /\ Len(outcomes) = 3
  /\ Failures = 1
  /\ Len(added) = 1
  /\ Len(added[1]) = 2
  /\ AddSucceeded

\* C9: when a run ends (stated for the runs that end with a terminal status
\* and without panic), the unmatched-songs list of the run record holds the songs whose resolution
\* failed: its length is the number of failures.
C9_UnmatchedRecorded ==
  (pc = "done" /\ syncRun.status \in Terminal /\ ~panicked)
    => /\ Len(syncRun.unmatchedSongs) = Failures
       /\ store[runNo] # NoRun => Len(store[runNo].unmatchedSongs) = Failures

\* the songs read from the first k sources, the skipped ones left out
RECURSIVE Collected(_)
Collected(k) ==
  IF k = 0 THEN <<>>
  ELSE Collected(k - 1)
         \o (IF k \in skipped THEN <<>> ELSE Playlists[sync.sources[k].playlistId])

\* C10: in a Merge run a failed read skips only that source: the songs of
\* the other sources are concatenated in source order, deduplicated, resolved
\* and handed to the destination, and the run ends COMPLETED when the add
\* succeeds although a source was skipped.
C10_MergeSkipsFailedSource ==
  sync.variant = "Merge"
    => /\ pc = "mgFetch" => songs = Collected(srcIdx - 1)
       /\ (pc \in {"mgClear", "search", "add"} \/ added # <<>>)
            => songs = DeduplicateIds(Collected(Len(sync.sources)), MergeThreshold)
       /\ added # <<>> => added = << ResolvedFrom(songs, outcomes, 1) >>
       /\ (pc = "done" /\ AddSucceeded) => syncRun.status = "COMPLETED"
       /\ (pc = "done" /\ syncRun.status = "FAILED" /\ ~panicked)
            => (FatalCall \/ UnsupportedDatasource)

C10_Witness ==
  /\ sync.variant = "Merge"
  /\ pc = "done"
  /\ skipped = {1}
  /\ syncRun.status = "COMPLETED"
  /\ Len(added) = 1
  /\ Len(added[1]) >= 1

(***************************************************************************)
(* Properties of the order of the steps and of the destination playlist.   *)
(***************************************************************************)
\* the place of a provider or normalizer call in the order fetch, normalize,
\* (dedupe,) resolve, clear, write
StepRank(op) ==
  CASE op = "fetch"     -> 1
    [] op = "normalize" -> 2
    [] op = "search"    -> 4
    [] op = "clear"     -> 5
    [] OTHER            -> 6

\* C11: within one run the calls are made in the order fetch, normalize,
\* resolve, clear, write for both strategies: the destination is cleared
\* only after every search of the run, and the add comes after the clear.
C11_StepsInOrder ==
  \A i, j \in 1..Len(calls) :
    i < j => StepRank(calls[i].op) <= StepRank(calls[j].op)

NoRepeat(s) == \A i, j \in 1..Len(s) : i # j => s[i] # s[j]

\* C12: RunSync never appends to the destination playlist a track it already
\* contains: after a successful add no destination id occurs twice in the
\* playlist (the playlist holds none twice before the run).
C12_NoDuplicateAppend ==
  AddSucceeded => NoRepeat(dest)

(***************************************************************************)
(* SyncStatusBroadcaster.  Subscribe, Unsubscribe and Close run under the   *)
(* write lock of b.mu and are one step each; Broadcast holds the read lock  *)
(* from its first step to its last and sends to one subscriber per step.    *)
(***************************************************************************)
\* b.subscribers[syncId]: nil (the empty list) for a key the map does not hold
SubsOf(reg, syncId) == IF syncId \in DOMAIN reg THEN reg[syncId] ELSE <<>>

\* b.subscribers[syncId] = list
Put(reg, syncId, list) ==
  [k \in DOMAIN reg \cup {syncId} |-> IF k = syncId THEN list ELSE reg[k]]

\* delete(b.subscribers, syncId)
Delete(reg, syncId) == [k \in DOMAIN reg \ {syncId} |-> reg[k]]

\* the channels the registry holds
Registered(reg) == UNION {ToSet(reg[k]) : k \in DOMAIN reg}

\* how many times the registry holds channel ch
Occurrences(reg, ch) ==
  Cardinality({<<k, i>> \in (DOMAIN reg) \X (1..MaxChans) :
                 i <= Len(reg[k]) /\ reg[k][i] = ch})

\* the Broadcast calls that hold the read lock
Readers == {p \in Callers : bc[p].pc # "idle"}

\* variant of CanLock: the write lock is not taken
CanLockUnguarded == TRUE

\* b.mu.Lock() returns: no Broadcast holds the read lock
CanLock == Readers = {}

\* the channel Subscribe makes: one that was never made before
FreshChan(ch) ==
  /\ ch \in ChanIds
  /\ ~chans[ch].made
  /\ \A c \in ChanIds : c < ch => chans[c].made

\* Subscribe: the registry with the new channel appended under syncId
Subscribe(reg, syncId, ch) == Put(reg, syncId, Append(SubsOf(reg, syncId), ch))

\* close(ch); closing a closed channel panics
CloseChan(cs, fl, ch) ==
  [chans  |-> [cs EXCEPT ![ch].closed = TRUE],
   faults |-> IF cs[ch].closed THEN fl \cup {"close of closed channel"} ELSE fl]

\* the index of the first occurrence of ch in the list, 0 when there is none
IndexOf(list, ch) ==
  IF \E i \in 1..Len(list) : list[i] = ch
  THEN CHOOSE i \in 1..Len(list) :
         list[i] = ch /\ \A j \in 1..(i - 1) : list[j] # ch
  ELSE 0

\* variant of RemoveAt: the channel stays in the list
RemoveAtKept(list, i) == list

\* append(subscribers[:i], subscribers[i+1:]...)
RemoveAt(list, i) == SubSeq(list, 1, i - 1) \o SubSeq(list, i + 1, Len(list))

\* variant of DropEmptyKey: the key is kept
DropEmptyKeyKept(reg, syncId) == reg

\* if len(b.subscribers[syncId]) == 0 { delete(b.subscribers, syncId) }
DropEmptyKey(reg, syncId) ==
  IF Len(SubsOf(reg, syncId)) = 0 THEN Delete(reg, syncId) ELSE reg

\* variant of CloseIfFound: the channel is closed whether it was found or not
CloseAlways(cs, fl, ch, i) == CloseChan(cs, fl, ch)

\* the close(ch) of Unsubscribe sits inside the test subscriber == ch: a
\* channel that is not in the list (i = 0) is not closed
CloseIfFound(cs, fl, ch, i) ==
  IF i = 0 THEN [chans |-> cs, faults |-> fl] ELSE CloseChan(cs, fl, ch)

\* Unsubscribe: the registry, the channels and the panics it leaves, and
\* whether ch was found under syncId
Unsubscribe(reg, cs, fl, syncId, ch) ==
  LET i  == IndexOf(SubsOf(reg, syncId), ch)
      cl == CloseIfFound(cs, fl, ch, IndexOf(SubsOf(reg, syncId), ch))
  IN  [ subscribers |-> DropEmptyKey(
                          IF i = 0 THEN reg
                          ELSE Put(reg, syncId, RemoveAt(SubsOf(reg, syncId), i)),
                          syncId),
        chans       |-> cl.chans,
        faults      |-> cl.faults,
        found       |-> i # 0 ]

\* Close: every channel of the registry is closed, every key deleted
Close(reg, cs, fl) ==
  [ subscribers |-> NewSyncStatusBroadcaster,
    chans       |-> [c \in ChanIds |->
                       IF c \in Registered(reg)
                       THEN [cs[c] EXCEPT !.closed = TRUE] ELSE cs[c]],
    faults      |-> IF \E c \in Registered(reg) :
                         cs[c].closed \/ Occurrences(reg, c) > 1
                    THEN fl \cup {"close of closed channel"} ELSE fl ]

\* variant of HasRoom: a full channel is sent to as well
HasRoomAlways(c) == TRUE

\* the send case of the select is ready: the buffer is not full
HasRoom(c) == Len(c.buf) < ChanCap

\* variant of NextSubscriber: the loop is left at a full channel
NextSubscriberStopAtFull(call, sent) ==
  IF sent THEN call.i + 1 ELSE Len(call.snap) + 1

\* the range loop of Broadcast goes on with the next subscriber, whether the
\* update was sent or dropped
NextSubscriber(call, sent) == call.i + 1

\* variant of Targets: the list of some key of the registry, whatever the
\* sync id of the run
TargetsOfAnyKey(reg, run) ==
  IF DOMAIN reg = {} THEN <<>> ELSE reg[CHOOSE k \in DOMAIN reg : TRUE]

\* subscribers, ok := b.subscribers[syncRun.GetSyncId()]
Targets(reg, run) == SubsOf(reg, run.syncId)

\* Broadcast takes the read lock and reads the list of its subscribers
BroadcastBegin(p, run) ==
  /\ bc[p].pc = "idle"
  /\ bc' = [bc EXCEPT ![p] = [pc |-> "send", run |-> run,
                              snap |-> Targets(subscribers, run),
                              i |-> 1, got |-> {}, dropped |-> {}]]
  /\ UNCHANGED << subscribers, chans, faults >>

\* one iteration of the range loop: select { case ch <- syncRun: default: }
BroadcastSend(p) ==
  /\ bc[p].pc = "send"
  /\ bc[p].i <= Len(bc[p].snap)
  /\ LET ch   == bc[p].snap[bc[p].i]
         sent == ~chans[ch].closed /\ HasRoom(chans[ch])
     IN  /\ chans' = IF sent
                     THEN [chans EXCEPT ![ch].buf = Append(@, bc[p].run)]
                     ELSE chans
         /\ faults' = IF chans[ch].closed
                      THEN faults \cup {"send on closed channel"} ELSE faults
         /\ bc' = [bc EXCEPT ![p].i = NextSubscriber(bc[p], sent),
                             ![p].got = IF sent THEN @ \cup {ch} ELSE @,
                             ![p].dropped = IF sent THEN @ ELSE @ \cup {ch}]
  /\ UNCHANGED subscribers

\* Broadcast returns and releases the read lock
BroadcastEnd(p) ==
  /\ bc[p].pc = "send"
  /\ bc[p].i > Len(bc[p].snap)
  /\ bc' = [bc EXCEPT ![p] = NoCall]
  /\ UNCHANGED << subscribers, chans, faults >>

\* the updates the callers of the broadcaster hand to Broadcast
BRuns == {[syncId |-> s, status |-> "RUNNING"] : s \in SyncIds}

CallSubscribe ==
  /\ CanLock
  /\ \E syncId \in SyncIds, ch \in ChanIds :
       /\ FreshChan(ch)
       /\ subscribers' = Subscribe(subscribers, syncId, ch)
       /\ chans' = [chans EXCEPT ![ch] = MakeChan]
  /\ UNCHANGED << bc, faults >>
  /\ UNCHANGED << runVars, streamVars, reqVars, configVars, matchVars >>

\* Unsubscribe called with any sync id and any channel Subscribe returned
CallUnsubscribe ==
  /\ CanLock
  /\ \E syncId \in SyncIds, ch \in ChanIds :
       /\ chans[ch].made
       /\ LET r == Unsubscribe(subscribers, chans, faults, syncId, ch)
          IN  /\ subscribers' = r.subscribers
              /\ chans' = r.chans
              /\ faults' = r.faults
  /\ UNCHANGED bc
  /\ UNCHANGED << runVars, streamVars, reqVars, configVars, matchVars >>

CallClose ==
  /\ CanLock
  /\ LET r == Close(subscribers, chans, faults)
     IN  /\ subscribers' = r.subscribers
         /\ chans' = r.chans
         /\ faults' = r.faults
  /\ UNCHANGED bc
  /\ UNCHANGED << runVars, streamVars, reqVars, configVars, matchVars >>

CallBroadcast ==
  /\ \E p \in Callers, run \in BRuns : BroadcastBegin(p, run)
  /\ UNCHANGED << runVars, streamVars, reqVars, configVars, matchVars >>

SendStep ==
  /\ \E p \in Callers : BroadcastSend(p)
  /\ UNCHANGED << runVars, streamVars, reqVars, configVars, matchVars >>

ReturnFromBroadcast ==
  /\ \E p \in Callers : BroadcastEnd(p)
  /\ UNCHANGED << runVars, streamVars, reqVars, configVars, matchVars >>

\* the holder of a channel receives from it: <-subscription
Receive ==
  /\ \E ch \in ChanIds :
       /\ chans[ch].made
       /\ chans[ch].buf # <<>>
       /\ chans' = [chans EXCEPT ![ch].buf = Tail(@)]
  /\ UNCHANGED << subscribers, bc, faults >>
  /\ UNCHANGED << runVars, streamVars, reqVars, configVars, matchVars >>

\* the engine at rest
EngineIdle == EngineInit /\ dest = <<>>

\* the server after construction, with an empty destination playlist
\* the server without the matching package in use
HandlersInit ==
  EngineIdle /\ BroadcasterInit /\ StreamInit /\ RequestInit /\ ConfigInit

ServerInit == HandlersInit /\ MatchIdle

BroadcasterNext ==
  \/ CallSubscribe
  \/ CallUnsubscribe
  \/ CallClose
  \/ CallBroadcast
  \/ SendStep
  \/ ReturnFromBroadcast
  \/ Receive

BroadcasterSpec ==
  /\ ServerInit
  /\ [][BroadcasterNext]_vars

(***************************************************************************)
(* Properties of the broadcaster.                                          *)
(***************************************************************************)
\* the Broadcast of caller p has gone through its whole list
LoopDone(p) == bc[p].pc = "send" /\ bc[p].i > Len(bc[p].snap)

\* the step is one iteration of the range loop of caller p
IsSendStep(p) ==
  bc[p].pc = "send" /\ bc'[p].pc = "send" /\ bc'[p] # bc[p]

\* the subscribers the Broadcast of caller p has dealt with so far
Visited(p) == {bc[p].snap[k] : k \in 1..(bc[p].i - 1)}

\* a Broadcast in progress can always take its next step, whatever the state
\* of the channels, and has sent to or dropped for each subscriber it passed
C13_NeverWaits ==
  \A p \in Callers :
    bc[p].pc = "send"
      => /\ ENABLED (BroadcastSend(p) \/ BroadcastEnd(p))
         /\ bc[p].i <= Len(bc[p].snap) + 1
         /\ bc[p].got \cup bc[p].dropped = Visited(p)
         /\ bc[p].got \cap bc[p].dropped = {}

\* one iteration sends when the channel has room and drops when it is full,
\* touches no other channel and goes on with the next subscriber
C13_SendOrDrop ==
  \A p \in Callers :
    IsSendStep(p)
      => LET ch == bc[p].snap[bc[p].i]
         IN  /\ bc'[p].i = bc[p].i + 1
             /\ Len(chans[ch].buf) = ChanCap
                  => (chans' = chans /\ ch \in bc'[p].dropped)
             /\ (Len(chans[ch].buf) < ChanCap /\ ~chans[ch].closed)
                  => /\ chans'[ch].buf = Append(chans[ch].buf, bc[p].run)
                     /\ ch \in bc'[p].got
             /\ \A c \in ChanIds \ {ch} : chans'[c] = chans[c]

\* C13: Broadcast never waits on a subscriber: a full (10-slot) channel makes
\* it drop the update for that subscriber only, and every other subscriber
\* under the sync id whose channel has room still receives the update.
C13_DropsOnlyForFullSubscriber ==
  [](C13_NeverWaits) /\ [][C13_SendOrDrop]_vars

\* a Broadcast over two subscribers: dropped for the full one, sent to the other
C13_Witness ==
  \E p \in Callers :
    /\ LoopDone(p)
    /\ Len(bc[p].snap) = 2
    /\ Cardinality(bc[p].dropped) = 1
    /\ Cardinality(bc[p].got) = 1

\* C14: registry modification and an in-progress Broadcast exclude each
\* other: a Broadcast in progress works on the list the registry holds, none
\* of its channels is closed, no send hits a closed channel and no channel is
\* closed twice, whatever the order of Subscribe, Unsubscribe, Broadcast and
\* Close calls (Unsubscribe after Close and repeated Unsubscribe included).
C14_NoSendOnClosedNoDoubleClose ==
  /\ faults = {}
  /\ \A p \in Callers :
       bc[p].pc = "send"
         => /\ bc[p].snap = SubsOf(subscribers, bc[p].run.syncId)
            /\ \A k \in 1..Len(bc[p].snap) : ~chans[bc[p].snap[k]].closed

\* a Broadcast in the middle of its loop while an earlier subscriber's channel
\* has been closed
C14_Witness ==
  \E p \in Callers :
    /\ bc[p].pc = "send"
    /\ bc[p].snap # <<>>
    /\ bc[p].i <= Len(bc[p].snap)
    /\ \E c \in ChanIds : chans[c].closed
    /\ faults = {}

\* every update in the buffer of a registered channel was broadcast under
\* the sync id the channel is subscribed under
C15_OwnSyncIdOnly ==
  \A k \in DOMAIN subscribers : \A i \in 1..Len(subscribers[k]) :
    \A j \in 1..Len(chans[subscribers[k][i]].buf) :
      chans[subscribers[k][i]].buf[j].syncId = k

\* a step of Broadcast leaves the registry and the channels that are not
\* subscribed under the sync id of the run as they are; a send step enqueues
\* the run on a channel subscribed under that sync id
C15_Frame ==
  \A p \in Callers :
    (bc'[p] # bc[p])
      => /\ subscribers' = subscribers
         /\ \A c \in ChanIds :
              c \notin ToSet(SubsOf(subscribers,
                                    (IF bc[p].pc = "send" THEN bc[p] ELSE bc'[p]).run.syncId))
                => chans'[c] = chans[c]
         /\ ~IsSendStep(p) => chans' = chans
         /\ (IsSendStep(p) /\ chans' # chans)
              => chans'[bc[p].snap[bc[p].i]].buf
                   = Append(chans[bc[p].snap[bc[p].i]].buf, bc[p].run)

\* C15: Broadcast(run) enqueues the run on every channel subscribed under
\* run.syncId that has room and on no other channel: the channels under other
\* sync ids and the registry are left unchanged.
C15_BroadcastFrame ==
  /\ [](C15_OwnSyncIdOnly)
  /\ [](\A p \in Callers :
          LoopDone(p) => bc[p].got \cup bc[p].dropped
                           = ToSet(SubsOf(subscribers, bc[p].run.syncId)))
  /\ [][C15_Frame]_vars

\* a finished Broadcast under sync-1 with a subscriber under each sync id
C15_Witness ==
  \E p \in Callers :
    /\ LoopDone(p)
    /\ bc[p].run.syncId = "sync-1"
    /\ Cardinality(bc[p].got) = 1
    /\ "sync-2" \in DOMAIN subscribers
    /\ \A c \in ToSet(subscribers["sync-2"]) : chans[c].buf = <<>>

\* C16: Unsubscribe is idempotent: in every state, a second Unsubscribe of the
\* same sync id and channel, and an Unsubscribe of a channel that is not
\* subscribed under the sync id, change neither the registry nor any channel
\* and close nothing.
C16_UnsubscribeIdempotent ==
  \A syncId \in SyncIds, ch \in ChanIds :
    chans[ch].made
      => /\ LET r1 == Unsubscribe(subscribers, chans, faults, syncId, ch)
             IN  LET r2 == Unsubscribe(r1.subscribers, r1.chans, r1.faults,
                                       syncId, ch)
                 IN  /\ ~r2.found
                     /\ r2.subscribers = r1.subscribers
                     /\ r2.chans = r1.chans
                     /\ r2.faults = r1.faults
         /\ ch \notin ToSet(SubsOf(subscribers, syncId))
              => LET r == Unsubscribe(subscribers, chans, faults, syncId, ch)
                 IN  /\ ~r.found
                     /\ r.subscribers = subscribers
                     /\ r.chans = chans
                     /\ r.faults = faults

\* a channel that was unsubscribed already, next to one still subscribed
\* under another sync id: Unsubscribe finds it under neither
C16_Witness ==
  \E ch \in ChanIds :
    /\ chans[ch].made
    /\ chans[ch].closed
    /\ ch \notin Registered(subscribers)
    /\ DOMAIN subscribers # {}
    /\ \A syncId \in SyncIds :
         ~Unsubscribe(subscribers, chans, faults, syncId, ch).found

\* C17: in every reachable state of the broadcaster no sync id maps to an
\* empty list, and every channel of the registry is open and registered
\* exactly once.
C17_RegistryWellFormed ==
  /\ \A k \in DOMAIN subscribers : subscribers[k] # <<>>
  /\ \A c \in Registered(subscribers) :
       /\ chans[c].made
       /\ ~chans[c].closed
       /\ Occurrences(subscribers, c) = 1

\* the last subscriber of sync-1 has unsubscribed and the key is gone, while
\* sync-2 keeps its subscriber
C17_Witness ==
  /\ DOMAIN subscribers = {"sync-2"}
  /\ \E c \in ChanIds : chans[c].closed /\ chans[c].buf # <<>>
                          /\ chans[c].buf[1].syncId = "sync-1"

(***************************************************************************)
(* SubscribeToSyncStatus, the status stream handler, next to an engine     *)
(* that stores and broadcasts the statuses of one run of the sync.  The    *)
(* checks of the request (user, sync id, owner) have passed.               *)
(***************************************************************************)
\* variant of StatusAfter: RUNNING is never entered
StatusAfterSkipsRunning(status) ==
  CASE status = "NONE" -> "PENDING"
    [] OTHER           -> "COMPLETED"

\* the statuses the engine gives a run that completes, in order
StatusAfter(status) ==
  CASE status = "NONE"    -> "PENDING"
    [] status = "PENDING" -> "RUNNING"
    [] OTHER              -> "COMPLETED"

\* the run of the sync the engine works on
StreamRun(status) ==
  [syncId |-> SyncId, runId |-> 1, status |-> status, unmatchedSongs |-> <<>>]

\* the status the engine broadcast last, "NONE" before its first Broadcast
LastBroadcastStatus ==
  IF broadcasts = <<>> THEN "NONE" ELSE broadcasts[Len(broadcasts)].status

\* storeAndBroadcastSyncRun, the write: CreateSyncRun for PENDING, UpdateSyncRun
\* for the later statuses
EngineStores ==
  /\ store[1].status = LastBroadcastStatus
  /\ store[1].status \notin Terminal
  /\ store' = IF store[1] = NoRun
              THEN CreateSyncRun(store, StreamRun("PENDING"))
              ELSE UpdateSyncRun(store, StreamRun(StatusAfter(store[1].status)))
  /\ UNCHANGED << pc, runNo, sync, llmEnabled, syncRun, syncErr, panicked,
                  retVal, dest, srcIdx, songs, searchIdx, searchedSongs,
                  writes, broadcasts, calls, outcomes, skipped, added >>
  /\ UNCHANGED << bcastVars, streamVars, reqVars, configVars, matchVars >>

\* storeAndBroadcastSyncRun, the Broadcast of the status it stored
EngineBroadcasts ==
  /\ store[1].status # LastBroadcastStatus
  /\ \E p \in Callers : BroadcastBegin(p, StreamRun(store[1].status))
  /\ broadcasts' = Broadcast(broadcasts, StreamRun(store[1].status))
  /\ afterRead' = IF hpc = "start" THEN afterRead
                  ELSE afterRead \cup {store[1].status}
  /\ UNCHANGED << pc, runNo, sync, llmEnabled, syncRun, syncErr, panicked,
                  retVal, store, dest, srcIdx, songs, searchIdx, searchedSongs,
                  writes, calls, outcomes, skipped, added >>
  /\ UNCHANGED << hpc, hch, mostRecentRun, streamed >>
  /\ UNCHANGED << reqVars, configVars, matchVars >>

\* the run with the latest UpdatedAt among the runs GetSyncs returned, as its
\* status; "nil" when there is none
MostRecentOf(st) ==
  IF \A r \in RunIds : st[r] = NoRun THEN "nil"
  ELSE st[CHOOSE r \in RunIds :
            st[r] # NoRun /\ \A q \in RunIds : st[q] # NoRun => q <= r].status

\* GetSyncs, the choice of the most recent run and its Send, all before the
\* handler subscribes
HandlerRead ==
  /\ hpc = "start"
  /\ \E readOk \in BOOLEAN, sendOk \in BOOLEAN :
       IF ~readOk
       THEN /\ hpc' = "returned"
            /\ UNCHANGED << mostRecentRun, streamed >>
       ELSE /\ mostRecentRun' = MostRecentOf(store)
            /\ IF mostRecentRun' = "nil"
               THEN hpc' = "subscribe" /\ UNCHANGED streamed
               ELSE IF sendOk
                    THEN /\ streamed' = streamed \cup {mostRecentRun'}
                         /\ hpc' = "subscribe"
                    ELSE hpc' = "returned" /\ UNCHANGED streamed
  /\ UNCHANGED << hch, afterRead >>
  /\ UNCHANGED << runVars, bcastVars, reqVars, configVars, matchVars >>

\* subscription := Subscribe(syncId), with the Unsubscribe deferred
HandlerSubscribe ==
  /\ hpc = "subscribe"
  /\ CanLock
  /\ \E ch \in ChanIds :
       /\ FreshChan(ch)
       /\ subscribers' = Subscribe(subscribers, SyncId, ch)
       /\ chans' = [chans EXCEPT ![ch] = MakeChan]
       /\ hch' = ch
  /\ hpc' = "loop"
  /\ UNCHANGED << bc, faults, mostRecentRun, streamed, afterRead >>
  /\ UNCHANGED << runVars, reqVars, configVars, matchVars >>

\* case <-ctx.Done(): return ctx.Err()
HandlerCtxDone ==
  /\ hpc = "loop"
  /\ hpc' = "exit"
  /\ UNCHANGED << hch, mostRecentRun, streamed, afterRead >>
  /\ UNCHANGED << runVars, bcastVars, reqVars, configVars, matchVars >>

\* case syncRun, ok := <-subscription: forward the update, or return when the
\* channel is closed and drained
HandlerRecv ==
  /\ hpc = "loop"
  /\ IF chans[hch].buf # <<>>
     THEN /\ chans' = [chans EXCEPT ![hch].buf = Tail(@)]
          /\ mostRecentRun' = Head(chans[hch].buf).status
          /\ \E sendOk \in BOOLEAN :
               IF sendOk
               THEN /\ streamed' = streamed \cup {Head(chans[hch].buf).status}
                    /\ UNCHANGED hpc
               ELSE /\ hpc' = "exit"
                    /\ UNCHANGED streamed
     ELSE /\ chans[hch].closed
          /\ hpc' = "exit"
          /\ UNCHANGED << chans, mostRecentRun, streamed >>
  /\ UNCHANGED << subscribers, bc, faults, hch, afterRead >>
  /\ UNCHANGED << runVars, reqVars, configVars, matchVars >>

\* case <-ticker.C: the most recent run is sent again
HandlerHeartbeat ==
  /\ hpc = "loop"
  /\ mostRecentRun # "nil"
  /\ \E sendOk \in BOOLEAN :
       IF sendOk
       THEN /\ streamed' = streamed \cup {mostRecentRun}
            /\ UNCHANGED hpc
       ELSE /\ hpc' = "exit"
            /\ UNCHANGED streamed
  /\ UNCHANGED << hch, mostRecentRun, afterRead >>
  /\ UNCHANGED << runVars, bcastVars, reqVars, configVars, matchVars >>

\* the deferred Unsubscribe(syncId, subscription) on every way out of the loop
HandlerUnsubscribe ==
  /\ hpc = "exit"
  /\ CanLock
  /\ LET r == Unsubscribe(subscribers, chans, faults, SyncId, hch)
     IN  /\ subscribers' = r.subscribers
         /\ chans' = r.chans
         /\ faults' = r.faults
  /\ hpc' = "returned"
  /\ UNCHANGED << bc, hch, mostRecentRun, streamed, afterRead >>
  /\ UNCHANGED << runVars, reqVars, configVars, matchVars >>

StreamNext ==
  \/ EngineStores
  \/ EngineBroadcasts
  \/ SendStep
  \/ ReturnFromBroadcast
  \/ CallSubscribe
  \/ CallUnsubscribe
  \/ CallClose
  \/ HandlerRead
  \/ HandlerSubscribe
  \/ HandlerCtxDone
  \/ HandlerRecv
  \/ HandlerHeartbeat
  \/ HandlerUnsubscribe

StreamSpec ==
  /\ ServerInit
  /\ [][StreamNext]_vars

\* C18: the handler forwards every update broadcast after it read the most
\* recent run from the store: once it sits in its receive loop with its
\* channel open and drained and no Broadcast in progress, every status
\* broadcast since the read has been handed to the stream.
C18_NoUpdateMissed ==
  (hpc = "loop" /\ ~chans[hch].closed /\ chans[hch].buf = <<>> /\ Readers = {})
    => afterRead \subseteq streamed

\* C19: whenever SubscribeToSyncStatus has returned after having subscribed,
\* its channel is no longer in the registry (and is closed).
C19_UnsubscribedOnReturn ==
  (hpc = "returned" /\ hch # 0)
    => /\ hch \notin Registered(subscribers)
       /\ chans[hch].closed
       /\ faults = {}

\* the handler returned after it had forwarded an update
C19_Witness ==
  /\ hpc = "returned"
  /\ hch # 0
  /\ afterRead \cap streamed # {}

(***************************************************************************)
(* runSyncImpl.ProcessRequest, the RunSync request handler, the goroutine  *)
(* it starts and the RunSync call the goroutine makes.                     *)
(***************************************************************************)
\* variant of ResponseOf: the outcome of the run is put into the response
ResponseWithRunOutcome(run, ret) ==
  IF ret = "err" THEN [code |-> "InternalServerError", status |-> "FAILED"]
  ELSE [code |-> "OK", status |-> "PENDING"]

\* the response after the goroutine was started: OK with status PENDING,
\* whatever the run record and the result of RunSync are at that time
ResponseOf(run, ret) == [code |-> "OK", status |-> "PENDING"]

\* variant of GoroutineCtx: the goroutine passes on the context of the request
GoroutineCtxOfRequest == "request"

\* bgCtx := context.Background()
GoroutineCtx == "background"

\* the context RunSync works under has been cancelled
RunCtxCancelled == runCtx = "request" /\ reqCtxDone

\* a store write or provider call made under a cancelled context fails
CtxAllows ==
  RunCtxCancelled
    => /\ Len(writes') > Len(writes) => ~writes'[Len(writes')].ok
       /\ Len(calls') > Len(calls) => ~calls'[Len(calls')].ok

\* ProcessRequest up to the go statement: GetSync, then the goroutine is started
ProcessRequest ==
  /\ reqPc \in {"idle", "replied"}
  /\ goPc \in {"none", "returned"}
  /\ pc \in {"idle", "done"}
  /\ runNo < MaxRuns
  /\ reqCtxDone' = FALSE
  /\ \E getOk \in BOOLEAN :
       IF getOk
       THEN /\ goPc' = "spawned"
            /\ reqPc' = "spawned"
            /\ response' = [code |-> "none", status |-> "none"]
       ELSE /\ goPc' = "none"
            /\ reqPc' = "replied"
            /\ response' = [code |-> "InternalServerError", status |-> "none"]
  /\ runCtx' = "none"
  /\ UNCHANGED access
  /\ UNCHANGED << runVars, bcastVars, streamVars, configVars, matchVars >>

\* ProcessRequest returns its response
Reply ==
  /\ reqPc = "spawned"
  /\ response' = ResponseOf(syncRun, retVal)
  /\ reqPc' = "replied"
  /\ UNCHANGED << reqCtxDone, goPc, runCtx, access >>
  /\ UNCHANGED << runVars, bcastVars, streamVars, configVars, matchVars >>

\* the context of the request ends (the client went away, or the response
\* was written)
RequestCtxEnds ==
  /\ reqPc # "idle"
  /\ ~reqCtxDone
  /\ reqCtxDone' = TRUE
  /\ UNCHANGED << reqPc, response, goPc, runCtx, access >>
  /\ UNCHANGED << runVars, bcastVars, streamVars, configVars, matchVars >>

\* the goroutine builds its context and calls RunSync
GoRunSync ==
  /\ goPc = "spawned"
  /\ RunSyncEntered
  /\ goPc' = "running"
  /\ runCtx' = GoroutineCtx
  /\ UNCHANGED << reqPc, response, reqCtxDone, access >>
  /\ UNCHANGED << bcastVars, streamVars, configVars, matchVars >>

\* RunSync returned to the goroutine: an error is logged, nothing else
GoReturn ==
  /\ goPc = "running"
  /\ pc = "done"
  /\ goPc' = "returned"
  /\ UNCHANGED << reqPc, response, reqCtxDone, runCtx, access >>
  /\ UNCHANGED << runVars, bcastVars, streamVars, configVars, matchVars >>

RequestNext ==
  \/ ProcessRequest
  \/ Reply
  \/ RequestCtxEnds
  \/ GoRunSync
  \/ GoReturn
  \/ StorePending /\ CtxAllows
  \/ StoreRunning /\ CtxAllows
  \/ Dispatch
  \/ OneWayFetch /\ CtxAllows
  \/ OneWayNormalize /\ CtxAllows
  \/ Search /\ CtxAllows
  \/ SearchReturn
  \/ OneWayClear /\ CtxAllows
  \/ AddToPlaylist /\ CtxAllows
  \/ MergeFetch /\ CtxAllows
  \/ MergeDedupe
  \/ MergeClear /\ CtxAllows
  \/ Panic
  \/ Finish
  \/ Deferred /\ CtxAllows

RequestSpec ==
  /\ ServerInit
  /\ [][RequestNext]_vars

\* C20: the handler replies OK with status PENDING without waiting for
\* RunSync (its reply is enabled whatever the position of the run), the run
\* works under the background context, which the end of the request's
\* context does not cancel, and the response never carries the outcome of
\* the run.
C20_RepliesWithoutWaiting ==
  /\ reqPc = "spawned" => ENABLED Reply
  /\ reqPc = "replied"
       => response = IF goPc = "none"
                     THEN [code |-> "InternalServerError", status |-> "none"]
                     ELSE [code |-> "OK", status |-> "PENDING"]
  /\ goPc \in {"running", "returned"}
       => (runCtx = "background" /\ ~RunCtxCancelled)

\* the reply PENDING was given although the run failed before the reply, and
\* the context of the request ended before the run did
C20_Witness ==
  /\ reqPc = "replied"
  /\ response = [code |-> "OK", status |-> "PENDING"]
  /\ reqCtxDone
  /\ goPc = "returned"
  /\ retVal = "err"
  /\ store[runNo].status = "FAILED"

(***************************************************************************)
(* Store writes and broadcasts of storeAndBroadcastSyncRun.                *)
(***************************************************************************)
\* the statuses of the store writes of the current call that succeeded
OkWriteStatuses ==
  [i \in 1..Len(SelectSeq(writes, LAMBDA w : w.ok)) |->
     SelectSeq(writes, LAMBDA w : w.ok)[i].status]

\* the statuses the current call handed to Broadcast
BroadcastStatuses == [i \in 1..Len(broadcasts) |-> broadcasts[i].status]

MaxSyncs == 2

\* the number a value of the Datasource enum is formatted as by %d
DatasourceNumber(ds) ==
  CASE ds = "UNSPECIFIED" -> 0
    [] ds = "SPOTIFY" -> 1
    [] ds = "YOUTUBE" -> 2
    [] ds = "TIDAL" -> 3

\* the decimal digit of a number below ten
DigitOf(n) ==
  CASE n = 0 -> "0" [] n = 1 -> "1" [] n = 2 -> "2" [] OTHER -> "3"

\* the byte value of a character, the order sort.Strings compares by
ByteOf(c) ==
  CASE c = "0" -> 48 [] c = "1" -> 49 [] c = "2" -> 50 [] c = "3" -> 51
    [] c = ":" -> 58 [] c = "a" -> 97 [] c = "b" -> 98 [] c = "d" -> 100
    [] c = "|" -> 124

\* s < t for Go strings: byte-wise lexicographic order
RECURSIVE StringLess(_, _)
StringLess(s, t) ==
  IF t = <<>> THEN FALSE
  ELSE IF s = <<>> THEN TRUE
  ELSE IF ByteOf(Head(s)) # ByteOf(Head(t)) THEN ByteOf(Head(s)) < ByteOf(Head(t))
  ELSE StringLess(Tail(s), Tail(t))

\* key inserted into a sorted list of keys
RECURSIVE InsertSorted(_, _)
InsertSorted(key, sorted) ==
  IF sorted = <<>> THEN <<key>>
  ELSE IF StringLess(Head(sorted), key)
       THEN <<Head(sorted)>> \o InsertSorted(key, Tail(sorted))
       ELSE <<key>> \o sorted

\* variant of SortStrings: the keys stay in the order of the request
SortStringsSkipped(keys) == keys

\* sort.Strings(keys)
RECURSIVE SortStrings(_)
SortStrings(keys) ==
  IF keys = <<>> THEN <<>>
  ELSE InsertSorted(Head(keys), SortStrings(Tail(keys)))

\* fmt.Sprintf("%d:%s", s.GetDatasource(), s.GetPlaylistId())
FormatSource(s) ==
  <<DigitOf(DatasourceNumber(s.datasource))>> \o <<":">> \o s.playlistId

\* strings.Join(keys, "|")
RECURSIVE JoinKeys(_)
JoinKeys(keys) ==
  IF keys = <<>> THEN <<>>
  ELSE IF Len(keys) = 1 THEN keys[1]
  ELSE keys[1] \o <<"|">> \o JoinKeys(Tail(keys))

canonicalSourceKey(sources) ==
  JoinKeys(SortStrings([i \in 1..Len(sources) |-> FormatSource(sources[i])]))

\* the loop of validateOneWaySync over the existing syncs finds a OneWay sync
\* with the same source and destination
OneWayExists(req, existingSyncs) ==
  \E i \in 1..Len(existingSyncs) :
    /\ existingSyncs[i].variant = "OneWay"
    /\ existingSyncs[i].sources[1].playlistId = req.sources[1].playlistId
    /\ existingSyncs[i].sources[1].datasource = req.sources[1].datasource
    /\ existingSyncs[i].destination.playlistId = req.destination.playlistId
    /\ existingSyncs[i].destination.datasource = req.destination.datasource

\* variant of IsConnected: every datasource passes the check
IsConnectedAlways(connectedDatasources, ds) == TRUE

\* connectedDatasources.Contains(ds)
IsConnected(connectedDatasources, ds) == ds \in connectedDatasources

\* validateOneWaySync: "nil" or the error it returns
validateOneWaySync(req, existingSyncs, connectedDatasources, tokensOk) ==
  IF req.sources[1].datasource = "UNSPECIFIED"
    THEN "source datasource must be specified"
  ELSE IF req.destination.datasource = "UNSPECIFIED"
    THEN "destination datasource must be specified"
  ELSE IF ~tokensOk
    THEN "failed to get connected datasources for user"
  ELSE IF ~IsConnected(connectedDatasources, req.sources[1].datasource)
    THEN "source datasource is not connected"
  ELSE IF ~IsConnected(connectedDatasources, req.destination.datasource)
    THEN "destination datasource is not connected"
  ELSE IF Len(req.sources[1].playlistId) = 0
    THEN "source playlist id must be specified"
  ELSE IF Len(req.destination.playlistId) = 0
    THEN "destination playlist id must be specified"
  ELSE IF OneWayExists(req, existingSyncs)
    THEN "A sync with these exact source and destination playlists already exists."
  ELSE "nil"

\* the loop of validatePlaylistMergeSync over the sources, from source i on:
\* "nil" or the first error
RECURSIVE ValidateSources(_, _, _)
ValidateSources(sources, i, connectedDatasources) ==
  IF i > Len(sources) THEN "nil"
  ELSE IF sources[i].datasource = "UNSPECIFIED"
    THEN "source datasource must be specified"
  ELSE IF Len(sources[i].playlistId) = 0
    THEN "source playlist id must be specified"
  ELSE IF ~IsConnected(connectedDatasources, sources[i].datasource)
    THEN "source datasource is not connected"
  ELSE ValidateSources(sources, i + 1, connectedDatasources)

\* the loop of validatePlaylistMergeSync over the existing syncs finds a
\* Merge sync with the same canonical key and destination
MergeExists(req, existingSyncs) ==
  \E i \in 1..Len(existingSyncs) :
    /\ existingSyncs[i].variant = "Merge"
    /\ canonicalSourceKey(existingSyncs[i].sources) = canonicalSourceKey(req.sources)
    /\ existingSyncs[i].destination.playlistId = req.destination.playlistId
    /\ existingSyncs[i].destination.datasource = req.destination.datasource

\* variant of TooFewSources: one source is enough
TooFewSourcesOne(sources) == Len(sources) < 1

\* the first check of validatePlaylistMergeSync: fewer than two sources
TooFewSources(sources) == Len(sources) < 2

\* validatePlaylistMergeSync: "nil" or the error it returns
validatePlaylistMergeSync(req, existingSyncs, connectedDatasources, tokensOk) ==
  IF TooFewSources(req.sources)
    THEN "at least two source playlists are required for a merge sync"
  ELSE IF req.destination.datasource = "UNSPECIFIED"
    THEN "destination datasource must be specified"
  ELSE IF Len(req.destination.playlistId) = 0
    THEN "destination playlist id must be specified"
  ELSE IF ~tokensOk
    THEN "failed to get connected datasources for user"
  ELSE IF ~IsConnected(connectedDatasources, req.destination.datasource)
    THEN "destination datasource is not connected"
  ELSE IF ValidateSources(req.sources, 1, connectedDatasources) # "nil"
    THEN ValidateSources(req.sources, 1, connectedDatasources)
  ELSE IF MergeExists(req, existingSyncs)
    THEN "A merge sync with these exact playlists already exists."
  ELSE "nil"

\* validateRequest: GetSyncs of the user, then the validation of the variant
validateRequest(req, existingSyncs, syncsOk, connectedDatasources, tokensOk) ==
  IF ~syncsOk THEN "failed to check for existing syncs"
  ELSE IF req.variant = "OneWay"
    THEN validateOneWaySync(req, existingSyncs, connectedDatasources, tokensOk)
  ELSE IF req.variant = "Merge"
    THEN validatePlaylistMergeSync(req, existingSyncs, connectedDatasources, tokensOk)
  ELSE "unknown sync type in validate request"

\* createSyncFromRequest: the Sync built from the request, with a fresh id
createSyncFromRequest(req, id) ==
  [id |-> id, variant |-> req.variant, sources |-> req.sources,
   destination |-> req.destination, overwriteExisting |-> req.overwriteExisting]

\* SyncStore.CreateSync: the sync is added to the stored syncs
CreateSync(st, s) == Append(st, s)

\* DatasourceTokenStore.DeleteToken
DeleteToken(toks, ds) == toks \ {ds}

\* the music sources the requests are built from
SrcA == Playlist("SPOTIFY", <<"a">>)
SrcB == Playlist("SPOTIFY", <<"b">>)
SrcBar == Playlist("SPOTIFY", <<"a", "|", "1", ":", "b">>)
SrcTidal == Playlist("TIDAL", <<"a">>)
SrcUnspecified == Playlist("UNSPECIFIED", <<"a">>)
SrcNoId == Playlist("SPOTIFY", <<>>)
DstD == Playlist("YOUTUBE", <<"d">>)

\* the CreateSync requests the user sends
CreateRequests ==
  { OneWaySync(SrcA, DstD, FALSE),
    OneWaySync(SrcTidal, DstD, FALSE),
    OneWaySync(SrcA, SrcNoId, FALSE),
    PlaylistMergeSync(<<SrcA, SrcB>>, DstD, FALSE),
    PlaylistMergeSync(<<SrcB, SrcA>>, DstD, FALSE),
    PlaylistMergeSync(<<SrcA, SrcA, SrcB>>, DstD, FALSE),
    PlaylistMergeSync(<<SrcA>>, DstD, FALSE),
    PlaylistMergeSync(<<>>, DstD, FALSE),
    PlaylistMergeSync(<<SrcA, SrcUnspecified>>, DstD, FALSE),
    PlaylistMergeSync(<<SrcB, SrcTidal>>, DstD, FALSE),
    UnknownSync }

\* ProcessRequest up to the call of SyncStore.CreateSync: validateRequest
\* reads the stored syncs and the connected datasources (two reads of two
\* stores, neither of which the handlers write between them in a way the
\* other read would see) and returns BadRequest on an error; otherwise the
\* sync is built and the call goes on to store it.
CsValidate(p) ==
  /\ csCalls[p].pc = "idle"
  /\ \E req \in CreateRequests, syncsOk \in BOOLEAN, tokensOk \in BOOLEAN :
       IF validateRequest(req, syncStore, syncsOk, tokens, tokensOk) # "nil"
       THEN /\ csResp' = [req |-> req, code |-> "BadRequest",
                          err |-> validateRequest(req, syncStore, syncsOk,
                                                  tokens, tokensOk)]
            /\ UNCHANGED csCalls
       ELSE /\ csCalls' = [csCalls EXCEPT ![p] = [pc |-> "store", req |-> req]]
            /\ UNCHANGED csResp
  /\ UNCHANGED << syncStore, tokens >>
  /\ UNCHANGED << runVars, bcastVars, streamVars, reqVars, matchVars >>

\* ProcessRequest from SyncStore.CreateSync on: the sync is persisted and the
\* response is OK, or the store fails and the response is
\* InternalServerError
CsStore(p) ==
  /\ csCalls[p].pc = "store"
  /\ \E storeOk \in BOOLEAN :
       /\ storeOk => Len(syncStore) < MaxSyncs
       /\ syncStore' = IF storeOk
                       THEN CreateSync(syncStore,
                              createSyncFromRequest(csCalls[p].req, Len(syncStore) + 1))
                       ELSE syncStore
       /\ csResp' = [req |-> csCalls[p].req,
                     code |-> IF storeOk THEN "OK" ELSE "InternalServerError",
                     err |-> IF storeOk THEN "nil"
                             ELSE "failed to create sync in database"]
  /\ csCalls' = [csCalls EXCEPT ![p] = NoCsCall]
  /\ UNCHANGED tokens
  /\ UNCHANGED << runVars, bcastVars, streamVars, reqVars, matchVars >>

\* unlinkDatasourceImpl.ProcessRequest for a datasource CheckPerms accepts:
\* the token is deleted, or the store fails
UnlinkDatasource ==
  /\ \E ds \in Datasources, deleteOk \in BOOLEAN :
       tokens' = IF deleteOk THEN DeleteToken(tokens, ds) ELSE tokens
  /\ UNCHANGED << syncStore, csCalls, csResp >>
  /\ UNCHANGED << runVars, bcastVars, streamVars, reqVars, matchVars >>

ConfigNext ==
  \/ \E p \in CsCallers : CsValidate(p)
  \/ \E p \in CsCallers : CsStore(p)
  \/ UnlinkDatasource

ConfigSpec ==
  /\ ServerInit
  /\ [][ConfigNext]_vars

(***************************************************************************)
(* Properties of the stored sync configs.                                  *)
(***************************************************************************)
\* the set of sources of a config
SourceSet(s) == {s.sources[i] : i \in 1..Len(s.sources)}

\* two configs are equivalent: same variant, same set of sources, same
\* destination
Equivalent(s, t) ==
  /\ s.variant = t.variant
  /\ SourceSet(s) = SourceSet(t)
  /\ s.destination = t.destination

\* C22: in every reachable state, after any sequence of CreateSync requests
\* of the user, concurrent ones included, no two stored configs of the user
\* are equivalent.
C22_NoEquivalentConfigs ==
  \A i, j \in 1..Len(syncStore) :
    i # j => ~Equivalent(syncStore[i], syncStore[j])

\* the lists that hold the same sources as list l, in any order
PermutationsOf(l) ==
  { m \in [1..Len(l) -> SourceSet([sources |-> l])] :
      \A x \in SourceSet([sources |-> l]) :
        Cardinality({i \in 1..Len(l) : m[i] = x}) =
        Cardinality({i \in 1..Len(l) : l[i] = x}) }

MergeDuplicateError == "A merge sync with these exact playlists already exists."

\* request req is a Merge request with the destination of the stored Merge
\* sync s and the sources of s in some order
ReorderedMerge(req, s) ==
  /\ req.variant = "Merge"
  /\ s.variant = "Merge"
  /\ req.destination = s.destination
  /\ req.sources \in PermutationsOf(s.sources)

\* every reordering of the sources of a stored Merge sync has the key of the
\* stored sync, and a request for it with the same destination fails
\* validation, as a duplicate as long as its datasources are connected
C23_SameKeyRejected ==
  \A i \in 1..Len(syncStore) :
    syncStore[i].variant = "Merge" =>
      \A l \in PermutationsOf(syncStore[i].sources) :
        /\ canonicalSourceKey(l) = canonicalSourceKey(syncStore[i].sources)
        /\ validateRequest(PlaylistMergeSync(l, syncStore[i].destination, FALSE),
                           syncStore, TRUE, tokens, TRUE)
             = IF \A k \in 1..Len(l) : l[k].datasource \in tokens
                  /\ syncStore[i].destination.datasource \in tokens
               THEN MergeDuplicateError
               ELSE IF syncStore[i].destination.datasource \notin tokens
               THEN "destination datasource is not connected"
               ELSE "source datasource is not connected"

\* a call never goes on to SyncStore.CreateSync with a reordering of a Merge
\* sync that is stored when the call validates its request, and validation
\* stores nothing
C23_NotStored ==
  \A p \in CsCallers :
    (csCalls[p].pc = "idle" /\ csCalls'[p].pc = "store")
      => /\ \A i \in 1..Len(syncStore) : ~ReorderedMerge(csCalls'[p].req, syncStore[i])
         /\ syncStore' = syncStore

\* C23: two Merge configs with the same destination whose source lists hold
\* the same sources in a different order canonicalize to the same key, so
\* creating the second after the first is stored is rejected as a duplicate
\* and nothing is stored.
C23_ReorderedMergeRejected == [](C23_SameKeyRejected) /\ [][C23_NotStored]_vars

\* Merge [A, B] is stored and the last response rejected Merge [B, A] as a
\* duplicate
C23_Witness ==
  /\ \E i \in 1..Len(syncStore) :
       /\ syncStore[i].variant = "Merge"
       /\ syncStore[i].sources = <<SrcA, SrcB>>
       /\ ReorderedMerge(csResp.req, syncStore[i])
  /\ csResp.req.sources = <<SrcB, SrcA>>
  /\ csResp.code = "BadRequest"
  /\ csResp.err = MergeDuplicateError
  /\ Len(syncStore) = 1

\* the datasources a config names
ProvidersOf(s) ==
  {s.sources[i].datasource : i \in 1..Len(s.sources)} \cup {s.destination.datasource}

\* C24: in every reachable state, across CreateSync and UnlinkDatasource
\* operations, each stored sync config names only source and destination
\* providers for which its owner has an active credential.
C24_StoredNamesConnected ==
  \A i \in 1..Len(syncStore) : ProvidersOf(syncStore[i]) \subseteq tokens

TooFewSourcesError == "at least two source playlists are required for a merge sync"

\* a Merge request with fewer than two sources
ShortMerge(req) == req.variant = "Merge" /\ Len(req.sources) < 2

\* C25: a CreateSync request for a Merge config with fewer than 2 sources is
\* rejected with a validation error and no config is stored: validation
\* returns an error for it in every reachable state (the error about the
\* sources whenever the stored syncs could be read), its response is
\* BadRequest, no call takes it on to SyncStore.CreateSync and no such
\* config is ever in the store.
C25_ShortMergeRejected ==
  /\ \A req \in CreateRequests :
       ShortMerge(req) =>
         /\ \A tokensOk \in BOOLEAN :
              validateRequest(req, syncStore, TRUE, tokens, tokensOk) = TooFewSourcesError
         /\ \A tokensOk \in BOOLEAN :
              validateRequest(req, syncStore, FALSE, tokens, tokensOk) # "nil"
  /\ ShortMerge(csResp.req) => csResp.code = "BadRequest"
  /\ \A p \in CsCallers : csCalls[p].pc = "store" => ~ShortMerge(csCalls[p].req)
  /\ \A i \in 1..Len(syncStore) : ~ShortMerge(syncStore[i])

\* a Merge request with one source was answered BadRequest with the error
\* about the sources while Merge syncs with two sources are stored
C25_Witness ==
  /\ csResp.req.variant = "Merge"
  /\ Len(csResp.req.sources) = 1
  /\ csResp.code = "BadRequest"
  /\ csResp.err = TooFewSourcesError
  /\ Len(syncStore) > 0
  /\ syncStore[1].variant = "Merge"

(***************************************************************************)
(* Callers of the matching package: DeduplicateSongs and                   *)
(* CalculateSimilarity applied to lists of songs of the catalogue.         *)
(***************************************************************************)
\* the length of the song lists the model explores
MaxSongs == 3

\* the song lists a caller passes
SongLists ==
  UNION { [1..n -> ToSet(Catalog)] : n \in 0..MaxSongs }

\* the thresholds a caller passes
Thresholds == {30, 90, 100}

\* a caller is about to call the matching package with a list and a threshold
MatchInit ==
  /\ HandlersInit
  /\ mSongs \in SongLists
  /\ mThreshold \in Thresholds
  /\ mPc = "start"
  /\ mResult = <<>>
  /\ mPair = <<>>
  /\ mScore = Rat(0, 1)
  /\ mText = <<>>
  /\ mClean = <<>>
  /\ searchCall = NoSearch

\* the caller calls DeduplicateSongs(songs, threshold)
CallDeduplicateSongs ==
  /\ mPc = "start"
  /\ mPc' = "deduplicated"
  /\ mResult' = DeduplicateSongs(mSongs, mThreshold)
  /\ UNCHANGED << mSongs, mThreshold, mPair, mScore, mText, mClean, searchCall >>
  /\ UNCHANGED << runVars, bcastVars, streamVars, reqVars, configVars >>

\* the caller calls CalculateSimilarity on two songs of its list
CallCalculateSimilarity ==
  /\ mPc = "start"
  /\ \E i, j \in 1..Len(mSongs) :
       /\ mPair' = <<i, j>>
       /\ mScore' = CalculateSimilarity(mSongs[i], mSongs[j])
  /\ mPc' = "scored"
  /\ UNCHANGED << mSongs, mThreshold, mResult, mText, mClean, searchCall >>
  /\ UNCHANGED << runVars, bcastVars, streamVars, reqVars, configVars >>

MatchNext ==
  \/ CallDeduplicateSongs
  \/ CallCalculateSimilarity

MatchSpec ==
  /\ MatchInit
  /\ [][MatchNext]_vars

\* Score of the song at position i of the list against the one at position j
ScoreAt(list, i, j) == CalculateSimilarity(list[i], list[j])

\* the song at position i is kept: its Score against every kept song before
\* it is below the threshold
RECURSIVE KeptAt(_, _, _)
KeptAt(list, threshold, i) ==
  \A j \in 1..(i - 1) :
    KeptAt(list, threshold, j)
      => RatLess(ScoreAt(list, i, j), Rat(threshold, 1))

\* the kept list from position i on, in input order
RECURSIVE KeptFrom(_, _, _)
KeptFrom(list, threshold, i) ==
  IF i > Len(list) THEN <<>>
  ELSE (IF KeptAt(list, threshold, i) THEN <<list[i]>> ELSE <<>>)
         \o KeptFrom(list, threshold, i + 1)

\* C26: Deduplicate keeps a song if and only if its Score against every
\* previously kept song is below the threshold, scanning the input in its
\* original order, so the first occurrence in input order is the retained
\* representative of each duplicate cluster and every dropped song scores at
\* least the threshold against some kept song that precedes it.
C26_KeptIffBelowThreshold ==
  mPc = "deduplicated"
    => /\ mResult = KeptFrom(mSongs, mThreshold, 1)
       /\ mSongs # <<>> => (mResult # <<>> /\ mResult[1] = mSongs[1])
       /\ \A i \in 1..Len(mSongs) :
            ~KeptAt(mSongs, mThreshold, i)
              => \E j \in 1..(i - 1) :
                   /\ KeptAt(mSongs, mThreshold, j)
                   /\ RatGeq(ScoreAt(mSongs, i, j), Rat(mThreshold, 1))

\* a list whose second song is dropped for scoring exactly the threshold
\* against the first and whose third song is kept
C26_Witness ==
  /\ mPc = "deduplicated"
  /\ Len(mSongs) = 3
  /\ mThreshold = 100
  /\ RatEq(ScoreAt(mSongs, 2, 1), Rat(100, 1))
  /\ mSongs[2] # mSongs[1]
  /\ mResult = <<mSongs[1], mSongs[3]>>

\* list a is an order-preserving subsequence of list b
RECURSIVE IsSubsequence(_, _)
IsSubsequence(a, b) ==
  IF a = <<>> THEN TRUE
  ELSE IF b = <<>> THEN FALSE
  ELSE IF Head(a) = Head(b) THEN IsSubsequence(Tail(a), Tail(b))
  ELSE IsSubsequence(a, Tail(b))

\* C27: for every input list and threshold, the output of Deduplicate is an
\* order-preserving subsequence of the input, so its size is at most the
\* input size.
C27_OutputIsSubsequence ==
  mPc = "deduplicated"
    => /\ IsSubsequence(mResult, mSongs)
       /\ Len(mResult) <= Len(mSongs)

\* a list of three songs of which two different ones are kept and one is
\* dropped at threshold 30
C27_Witness ==
  /\ mPc = "deduplicated"
  /\ mThreshold = 30
  /\ Len(mSongs) = 3
  /\ Len(mResult) = 2
  /\ mResult[1] # mResult[2]
  /\ mSongs[2] # mSongs[1]
  /\ mSongs[3] # mSongs[2]

\* no two songs of the list are identical records
NoTwoIdentical(list) ==
  \A i, j \in 1..Len(list) : i # j => list[i] # list[j]

\* C28 as claimed: for threshold = 100 and any input list in which no two
\* songs are identical records, Deduplicate returns the input unchanged.
C28_DistinctRecordsKept ==
  (mPc = "deduplicated" /\ mThreshold = 100 /\ NoTwoIdentical(mSongs))
    => mResult = mSongs

\* two songs agree after cleaning: same cleaned title, same cleaned album and
\* the same set of cleaned artist words
SameCleanedMetadata(songA, songB) ==
  /\ Clean(songA.name) = Clean(songB.name)
  /\ Clean(songA.album) = Clean(songB.album)
  /\ ToSet(Fields(Clean(Join(songA.artists))))
       = ToSet(Fields(Clean(Join(songB.artists))))

\* no two songs of the list carry the same non-empty ISRC or agree after
\* cleaning
NoTwoAlike(list) ==
  \A i, j \in 1..Len(list) :
    i # j => /\ ~(list[i].isrc # <<>> /\ list[i].isrc = list[j].isrc)
             /\ ~SameCleanedMetadata(list[i], list[j])

\* C28: for threshold = 100 and any input list in which no two songs carry
\* the same non-empty ISRC and no two songs agree in cleaned title, cleaned
\* album and set of cleaned artist words, Deduplicate returns the input
\* unchanged (same songs in the same order).
C28_UnalikeSongsKept ==
  (mPc = "deduplicated" /\ mThreshold = 100 /\ NoTwoAlike(mSongs))
    => mResult = mSongs

\* three songs no two of which are alike, deduplicated at threshold 100
C28_Witness ==
  /\ mPc = "deduplicated"
  /\ mThreshold = 100
  /\ Len(mSongs) = 3
  /\ NoTwoAlike(mSongs)
  /\ mResult = mSongs

\* the list in reverse order
Reverse(list) == [i \in 1..Len(list) |-> list[Len(list) + 1 - i]]

\* C29: for every input list and threshold, Deduplicate applied to the
\* reversed list returns the same number of songs as Deduplicate applied to
\* the original list.
C29_ReversalKeepsCount ==
  mPc = "deduplicated"
    => Len(DeduplicateSongs(Reverse(mSongs), mThreshold)) = Len(mResult)

\* the song with its ISRC replaced
WithIsrc(song, isrc) == [song EXCEPT !.isrc = isrc]

\* the ISRCs the catalogue uses
CatalogIsrcs == {Catalog[i].isrc : i \in 1..Len(Catalog)} \ {<<>>}

\* C30: for all songs A and B that carry equal non-empty ISRCs, Score(A, B)
\* is exactly 100 whatever their title, artist and album metadata: the score
\* returned for such a pair is 100, and giving any two songs passed to
\* CalculateSimilarity the same ISRC makes their score 100.
C30_SameIsrcScores100 ==
  mPc = "scored"
    => /\ (/\ mSongs[mPair[1]].isrc # <<>>
           /\ mSongs[mPair[1]].isrc = mSongs[mPair[2]].isrc)
            => mScore = Rat(100, 1)
       /\ \A isrc \in CatalogIsrcs :
            CalculateSimilarity(WithIsrc(mSongs[mPair[1]], isrc),
                                WithIsrc(mSongs[mPair[2]], isrc)) = Rat(100, 1)

\* two songs with the same ISRC and no metadata in common were scored
C30_Witness ==
  /\ mPc = "scored"
  /\ mSongs[mPair[1]].isrc # <<>>
  /\ mSongs[mPair[1]].isrc = mSongs[mPair[2]].isrc
  /\ mSongs[mPair[1]].name # mSongs[mPair[2]].name
  /\ mSongs[mPair[1]].artists # mSongs[mPair[2]].artists
  /\ mSongs[mPair[1]].album # mSongs[mPair[2]].album
  /\ mScore = Rat(100, 1)

\* C31: Score is symmetric: for all songs A and B, Score(A, B) equals
\* Score(B, A).
C31_ScoreSymmetric ==
  mPc = "scored"
    => /\ RatEq(mScore, CalculateSimilarity(mSongs[mPair[2]], mSongs[mPair[1]]))
       /\ \A isrc \in CatalogIsrcs :
            RatEq(CalculateSimilarity(WithIsrc(mSongs[mPair[1]], isrc), mSongs[mPair[2]]),
                  CalculateSimilarity(mSongs[mPair[2]], WithIsrc(mSongs[mPair[1]], isrc)))

\* two songs with titles of different lengths, different albums and the same
\* artist were scored, and the score is strictly between 0 and 100
C31_Witness ==
  /\ mPc = "scored"
  /\ Len(Clean(mSongs[mPair[1]].name)) < Len(Clean(mSongs[mPair[2]].name))
  /\ mSongs[mPair[1]].album # mSongs[mPair[2]].album
  /\ mSongs[mPair[1]].artists = mSongs[mPair[2]].artists
  /\ RatLess(Rat(0, 1), mScore)
  /\ RatLess(mScore, Rat(100, 1))

\* 0.45 x title similarity + 0.45 x artist similarity + 0.10 x album
\* similarity of the cleaned fields
FixedWeightedSum(songA, songB) ==
  WeightedSum(normalizedLevenshtein(Clean(songA.name), Clean(songB.name)), 45,
              tokenSetRatio(Clean(Join(songA.artists)), Clean(Join(songB.artists))),
              normalizedLevenshtein(Clean(songA.album), Clean(songB.album)))

\* C32: for every pair of songs without equal non-empty ISRCs, Score is the
\* fixed weighted sum 0.45 x title + 0.45 x artist + 0.10 x album similarity
\* of the cleaned fields, with the same weights for every input.
C32_FixedWeights ==
  (/\ mPc = "scored"
   /\ ~(/\ mSongs[mPair[1]].isrc # <<>>
        /\ mSongs[mPair[1]].isrc = mSongs[mPair[2]].isrc))
    => RatEq(mScore, FixedWeightedSum(mSongs[mPair[1]], mSongs[mPair[2]]))

(***************************************************************************)
(* Callers of Clean.                                                       *)
(***************************************************************************)
\* the number of pieces the strings passed to Clean are made of
MaxPieces == 4

\* the pieces: brackets, a featuring note, a tag word, letters of both
\* cases, white space, a letter with a diacritic and punctuation
Pieces ==
  { <<"(">>, <<")">>, <<"]">>, <<"f", "t", ".", "X">>, <<"L", "i", "v", "e">>,
    <<"A", " ", "b">>, <<" ">>, <<"é", "-">> }

\* the concatenations of n pieces
RECURSIVE TextsOf(_)
TextsOf(n) ==
  IF n = 0 THEN {<<>>}
  ELSE {p \o t : p \in Pieces, t \in TextsOf(n - 1)}

\* the strings a caller passes to Clean
Texts == UNION {TextsOf(n) : n \in 0..MaxPieces}

\* a caller is about to call Clean with a string
CleanInit ==
  /\ HandlersInit
  /\ mSongs = <<>>
  /\ mThreshold = 0
  /\ mPc = "start"
  /\ mResult = <<>>
  /\ mPair = <<>>
  /\ mScore = Rat(0, 1)
  /\ mText \in Texts
  /\ mClean = <<>>
  /\ searchCall = NoSearch

\* the caller calls Clean(s)
CallClean ==
  /\ mPc = "start"
  /\ mPc' = "cleaned"
  /\ mClean' = Clean(mText)
  /\ UNCHANGED << mSongs, mThreshold, mResult, mPair, mScore, mText, searchCall >>
  /\ UNCHANGED << runVars, bcastVars, streamVars, reqVars, configVars >>

\* the caller passes the result to Clean again
CallCleanAgain ==
  /\ mPc = "cleaned"
  /\ mPc' = "cleanedTwice"
  /\ mText' = mClean
  /\ mClean' = Clean(mClean)
  /\ UNCHANGED << mSongs, mThreshold, mResult, mPair, mScore, searchCall >>
  /\ UNCHANGED << runVars, bcastVars, streamVars, reqVars, configVars >>

CleanNext ==
  \/ CallClean
  \/ CallCleanAgain

CleanSpec ==
  /\ CleanInit
  /\ [][CleanNext]_vars

\* the uppercase letters of the strings
Uppercase == {"A", "B", "L", "X"}

\* C33: cleaning is idempotent: for every string s, Clean(Clean(s)) equals
\* Clean(s), and the result contains no uppercase letters.
C33_CleanIdempotent ==
  /\ mPc = "cleaned"
       => /\ Clean(mClean) = mClean
          /\ \A i \in 1..Len(mClean) : mClean[i] \notin Uppercase
  /\ mPc = "cleanedTwice" => mClean = mText

\* a string with an uppercase letter, a featuring note in brackets and a
\* diacritic was cleaned twice, and cleaning changed it the first time only
C33_Witness ==
  /\ mPc = "cleanedTwice"
  /\ mClean = mText
  /\ mClean = <<"a", " ", "b", " ", "e">>

\* C34 as claimed: RunSync returns a non-nil error if and only if the
\* terminal status of the run is FAILED (the case where the strategy
\* panicked included).
C34_ErrorIffFailed ==
  pc = "done" => (retVal = "err" <=> syncRun.status = "FAILED")

\* C34 as amended: RunSync returns a non-nil error if and only if the
\* strategy returned an error or the write of PENDING or of RUNNING failed
\* (the run then has no terminal status); after a recovered panic it returns
\* nil although the terminal status is FAILED; without a panic a run that
\* reached a terminal status returns an error iff that status is FAILED; a
\* failure of the final store write changes nothing of what is returned.
C34_ErrorIffStrategyErrorOrEarlyStoreFailure ==
  pc = "done"
    => /\ retVal \in {"nil", "err"}
       /\ retVal = "err" <=> (syncErr # "nil" \/ syncRun.status \notin Terminal)
       /\ panicked => (retVal = "nil" /\ syncRun.status = "FAILED")
       /\ (~panicked /\ syncRun.status \in Terminal)
            => (retVal = "err" <=> syncRun.status = "FAILED")

\* the strategy returned an error, the final store write failed and RunSync
\* returned the error
C34_Witness ==
  /\ pc = "done"
  /\ syncErr # "nil"
  /\ syncRun.status = "FAILED"
  /\ ~LastWrite(runNo).ok
  /\ LastWrite(runNo).status = "FAILED"
  /\ store[runNo].status = "RUNNING"
  /\ retVal = "err"

(***************************************************************************)
(* A subscriber that registered before the run started.                    *)
(***************************************************************************)
\* channel c is registered under the sync id of the run, open, and nobody
\* receives from it (it is not the channel of the stream handler)
HoldsUpdates(c) ==
  /\ c \in ToSet(SubsOf(subscribers, SyncId))
  /\ chans[c].made
  /\ ~chans[c].closed
  /\ c # hch

\* the statuses waiting in channel c, oldest first
BufStatuses(c) == [i \in 1..Len(chans[c].buf) |-> chans[c].buf[i].status]

\* the statuses of a run whose writes all succeed, in the order RunSync
\* stores and broadcasts them
RunStatuses == << "PENDING", "RUNNING", "COMPLETED" >>

\* the engine has broadcast the terminal status and Broadcast has returned
RunOver == LastBroadcastStatus \in Terminal /\ Readers = {}

CallsOf(op) == {i \in 1..Len(calls) : calls[i].op = op}

\* list a is the beginning of list b
IsPrefixOf(a, b) == Len(a) <= Len(b) /\ SubSeq(b, 1, Len(a)) = a

\* the calls of ClearPlaylist of a run: none without overwriteExisting, at
\* most one with it, and before the AddToPlaylist
C36_ClearCalls ==
  /\ Cardinality(CallsOf("clear")) <= 1
  /\ CallsOf("clear") # {} => sync.overwriteExisting
  /\ \A i \in CallsOf("clear"), j \in CallsOf("add") : i < j

\* a step either keeps every entry of the destination in place (it may
\* append) or is the one successful ClearPlaylist of a run with
\* overwriteExisting
C36_DestinationStep ==
  \/ IsPrefixOf(dest, dest')
  \/ /\ sync.overwriteExisting
     /\ CallsOf("clear") = {}
     /\ CallsOf("add") = {}
     /\ calls' = Append(calls, Call("clear", TRUE))
     /\ dest' = <<>>

\* C36: during a run the destination playlist is cleared only when
\* overwriteExisting is true, and then at most once and before the append;
\* when overwriteExisting is false no step of the run clears or removes
\* anything from the destination.
C36_ClearedOnlyOnOverwrite ==
  /\ [](C36_ClearCalls)
  /\ [][C36_DestinationStep]_vars

\* a run without overwriteExisting appended to a destination that had
\* entries, and made no call of ClearPlaylist
C36_Witness ==
  /\ pc = "done"
  /\ ~sync.overwriteExisting
  /\ CallsOf("clear") = {}
  /\ \E j \in CallsOf("add") : calls[j].ok
  /\ added # <<>>
  /\ added[1] # <<>>
  /\ Len(dest) > Len(added[1])
  /\ dest[1] = "t9"

(***************************************************************************)
(* Search of the datasource clients (spotifyClientImpl, youtubeClientImpl, *)
(* tidalClientImpl): an optional search by ISRC, then the metadata queries *)
(* whose candidates are scored with CalculateSimilarity.  What the         *)
(* provider answers is chosen by the environment, candidate by candidate.  *)
(***************************************************************************)
\* the number of metadata queries of one call
MaxQueries == 2

\* the number of candidates one answer holds
MaxTracks == 2

\* if highestScore > 95.0 { return bestMatch, nil }
NearPerfect == 95

\* if highestScore > 85.0 { break }
GoodCandidate == 85

\* the tracks a provider may answer with: the catalogue and one track that
\* differs from song c6 by one letter of the title
Tracks ==
  ToSet(Catalog)
    \cup {Song(<<"a", "b", "c", "d">>, <<<<"x">>>>, <<"n">>, <<>>, "t7")}

\* the clients whose Search sees the ISRC of the song: spotifyClientImpl is
\* handed the song itself, the other two build one from names only
SearchesByIsrc(provider) == provider = "SPOTIFY"

\* the clients that leave the query loop after a query with a candidate
\* above 85
BreaksAfterGoodQuery(provider) == provider \in {"SPOTIFY", "TIDAL"}

\* a client's Search has been called with a song and has its client
SearchInit ==
  /\ HandlersInit
  /\ mSongs = <<>>
  /\ mThreshold = 0
  /\ mPc = "idle"
  /\ mResult = <<>>
  /\ mPair = <<>>
  /\ mScore = Rat(0, 1)
  /\ mText = <<>>
  /\ mClean = <<>>
  /\ searchCall \in {[NoSearch EXCEPT !.pc = "isrc", !.provider = p,
                                      !.songToSearch = s] :
                       p \in Datasources, s \in ToSet(Catalog)}

\* variant of IsBetter: every candidate replaces the best match
IsBetterAlways(score, highestScore) == TRUE

\* if score > highestScore
IsBetter(score, highestScore) == RatLess(highestScore, score)

\* the search by ISRC: the first track of a non-empty answer is returned as
\* it is; the provider answers an ISRC query with tracks of that ISRC
SearchByIsrc ==
  /\ searchCall.pc = "isrc"
  /\ \/ /\ SearchesByIsrc(searchCall.provider)
        /\ searchCall.songToSearch.isrc # <<>>
        /\ \E t \in Tracks :
             /\ t.isrc = searchCall.songToSearch.isrc
             /\ searchCall' = [searchCall EXCEPT
                                 !.pc = "returned",
                                 !.examined = {t},
                                 !.ret = [song |-> t, err |-> "nil"]]
     \/ searchCall' = [searchCall EXCEPT !.pc = "query"]
  /\ UNCHANGED << mSongs, mThreshold, mPc, mResult, mPair, mScore, mText,
                  mClean >>
  /\ UNCHANGED << runVars, bcastVars, streamVars, reqVars, configVars >>

\* one iteration of the loop over the tracks of an answer
ExamineCandidate ==
  /\ searchCall.pc = "query"
  /\ searchCall.i <= MaxTracks
  /\ \E foundSong \in Tracks :
       LET score   == CalculateSimilarity(searchCall.songToSearch, foundSong)
           better  == IsBetter(score, searchCall.highestScore)
           highest == IF better THEN score ELSE searchCall.highestScore
           best    == IF better THEN foundSong ELSE searchCall.bestMatch
       IN  searchCall' =
             IF RatLess(Rat(NearPerfect, 1), highest)
             THEN [searchCall EXCEPT
                     !.pc = "returned",
                     !.highestScore = highest,
                     !.bestMatch = best,
                     !.examined = @ \cup {foundSong},
                     !.ret = [song |-> best, err |-> "nil"]]
             ELSE [searchCall EXCEPT
                     !.i = @ + 1,
                     !.highestScore = highest,
                     !.bestMatch = best,
                     !.examined = @ \cup {foundSong}]
  /\ UNCHANGED << mSongs, mThreshold, mPc, mResult, mPair, mScore, mText,
                  mClean >>
  /\ UNCHANGED << runVars, bcastVars, streamVars, reqVars, configVars >>

\* what Search returns after the query loop
SearchResult(bestMatch) ==
  IF bestMatch = NilSong
  THEN [song |-> NilSong, err |-> "no suitable track found"]
  ELSE [song |-> bestMatch, err |-> "nil"]

\* the answer of a query has no further track (or the query failed): the
\* loop goes on with the next query, or is left
EndOfQuery ==
  /\ searchCall.pc = "query"
  /\ searchCall' =
       IF \/ searchCall.q = MaxQueries
          \/ /\ BreaksAfterGoodQuery(searchCall.provider)
             /\ RatLess(Rat(GoodCandidate, 1), searchCall.highestScore)
       THEN [searchCall EXCEPT !.pc = "returned",
                               !.ret = SearchResult(searchCall.bestMatch)]
       ELSE [searchCall EXCEPT !.q = @ + 1, !.i = 1]
  /\ UNCHANGED << mSongs, mThreshold, mPc, mResult, mPair, mScore, mText,
                  mClean >>
  /\ UNCHANGED << runVars, bcastVars, streamVars, reqVars, configVars >>

SearchNext ==
  \/ SearchByIsrc
  \/ ExamineCandidate
  \/ EndOfQuery

SearchSpec ==
  /\ SearchInit
  /\ [][SearchNext]_vars

\* the score of a candidate against the song searched for
ScoreOf(t) == CalculateSimilarity(searchCall.songToSearch, t)

\* the examined candidates that score above n
ExaminedAbove(n) ==
  {t \in searchCall.examined : RatLess(Rat(n, 1), ScoreOf(t))}

UserInfos == {"nil", "u1", "u2"}

\* the sync ids of the requests: none, one that is no UUID, the stored sync
\* and a UUID the store has no sync for
RequestedSyncIds == {"", "not-a-uuid", "sync-1", "sync-2"}

\* sync.GetUserId() of the stored syncs
StoredSyncUserId == [id \in {SyncId} |-> "u1"]

\* uuid.Parse succeeds
IsUuid(id) == id \in SyncIds

\* SyncStore.GetSync fails: the store fails or has no sync of that id
GetSyncErr(id, getOk) == ~getOk \/ id \notin DOMAIN StoredSyncUserId

\* variant of IsOwner: every user passes
IsOwnerAlways(userId, id) == TRUE

\* userInfo.GetId() == sync.GetUserId()
IsOwner(userId, id) == userId = StoredSyncUserId[id]

\* runSyncImpl.validateRequest
runSyncValidateRequest(userInfo, id, getOk) ==
  IF id = "" THEN "sync id is required"
  ELSE IF ~IsUuid(id) THEN "invalid sync id"
  ELSE IF GetSyncErr(id, getOk) THEN "could not get sync"
  ELSE IF ~IsOwner(userInfo, id) THEN "user does not have permission to run sync"
  ELSE "nil"

\* runSyncImpl.CheckPerms
CheckPerms(userInfo, id, getOk) ==
  IF userInfo = "nil" THEN "user is required to run sync job"
  ELSE runSyncValidateRequest(userInfo, id, getOk)

\* the checks of SubscribeToSyncStatus, as the code of the error returned
SubscribeChecks(userInfo, id, getOk) ==
  IF userInfo = "nil" THEN "Unauthenticated"
  ELSE IF id = "" THEN "InvalidArgument"
  ELSE IF ~IsUuid(id) THEN "InvalidArgument"
  ELSE IF GetSyncErr(id, getOk) THEN "NotFound"
  ELSE IF ~IsOwner(userInfo, id) THEN "PermissionDenied"
  ELSE "nil"

\* a request has arrived at one of the two handlers
AccessInit ==
  /\ EngineIdle
  /\ BroadcasterInit
  /\ StreamInit
  /\ reqPc = "idle"
  /\ response = [code |-> "none", status |-> "none"]
  /\ reqCtxDone = FALSE
  /\ goPc = "none"
  /\ runCtx = "none"
  /\ access \in {[pc |-> "arrived", rpc |-> r, user |-> u, syncId |-> id,
                  code |-> "none"] :
                   r \in {"RunSync", "SubscribeToSyncStatus"},
                   u \in UserInfos, id \in RequestedSyncIds}
  /\ ConfigInit
  /\ MatchIdle

\* OrchestrateHandler up to the call of ProcessRequest: an error of
\* CheckPerms is answered with PermissionDenied
OrchestrateHandler ==
  /\ access.pc = "arrived"
  /\ access.rpc = "RunSync"
  /\ \E getOk \in BOOLEAN :
       access' = IF CheckPerms(access.user, access.syncId, getOk) # "nil"
                 THEN [access EXCEPT !.pc = "rejected",
                                     !.code = "PermissionDenied"]
                 ELSE [access EXCEPT !.pc = "admitted"]
  /\ UNCHANGED << reqPc, response, reqCtxDone, goPc, runCtx >>
  /\ UNCHANGED << runVars, bcastVars, streamVars, configVars, matchVars >>

\* SubscribeToSyncStatus up to the read of the runs of the sync
SubscribeToSyncStatus ==
  /\ access.pc = "arrived"
  /\ access.rpc = "SubscribeToSyncStatus"
  /\ \E getOk \in BOOLEAN :
       access' = IF SubscribeChecks(access.user, access.syncId, getOk) # "nil"
                 THEN [access EXCEPT
                         !.pc = "rejected",
                         !.code = SubscribeChecks(access.user, access.syncId,
                                                  getOk)]
                 ELSE [access EXCEPT !.pc = "admitted"]
  /\ UNCHANGED << reqPc, response, reqCtxDone, goPc, runCtx >>
  /\ UNCHANGED << runVars, bcastVars, streamVars, configVars, matchVars >>

\* the checks of the request to rpc have passed
Admitted(rpc) == access.pc = "admitted" /\ access.rpc = rpc

AccessNext ==
  \/ OrchestrateHandler
  \/ SubscribeToSyncStatus
  \/ Admitted("RunSync") /\ RequestNext
  \/ Admitted("SubscribeToSyncStatus") /\ StreamNext

AccessSpec ==
  /\ AccessInit
  /\ [][AccessNext]_vars

\* the request comes from the user the requested sync belongs to
FromOwner ==
  /\ access.user # "nil"
  /\ access.syncId \in DOMAIN StoredSyncUserId
  /\ access.user = StoredSyncUserId[access.syncId]

\* C38: only the owner of a sync can start a run for it or subscribe to its
\* status stream: for a request from any other user, or from no user, no run
\* record is created, no provider call is made and no subscription is
\* registered in the broadcaster.
C38_OnlyOwnerRunsOrSubscribes ==
  /\ access.pc = "admitted" => FromOwner
  /\ (access.pc # "none" /\ ~FromOwner)
       => /\ \A r \in RunIds : store[r] = NoRun
          /\ writes = <<>>
          /\ calls = <<>>
          /\ broadcasts = <<>>
          /\ subscribers = NewSyncStatusBroadcaster
          /\ \A c \in ChanIds : ~chans[c].made
          /\ goPc = "none"
          /\ pc = "idle"
          /\ hpc = "start"
          /\ streamed = {}

\* another user asked for the status stream of the stored sync and was
\* turned away with PermissionDenied
C38_Witness ==
  /\ access.pc = "rejected"
  /\ access.rpc = "SubscribeToSyncStatus"
  /\ access.user = "u2"
  /\ access.syncId = SyncId
  /\ access.code = "PermissionDenied"
  /\ subscribers = NewSyncStatusBroadcaster

====
